---- MODULE Spec2Model ----
(***************************************************************************)
(* Model of the model-monitoring writer pipeline                           *)
(* (mlrun/model_monitoring/writer.py), of the two time-series stores it    *)
(* writes through (V3IO frames store, TDEngine connector), of the          *)
(* operations of the TDEngine connector (create_tables, get_records,       *)
(* read_metrics_data, read_predictions, delete_tsdb_resources) and of the  *)
(* SQL model endpoint store.                                               *)
(*                                                                         *)
(* Specifications: Spec (one writer, every configuration), SpecTD (the     *)
(* connectors of two projects on one database), SpecConn (the operations   *)
(* of a connector on a database that starts empty), SpecSQL (the model     *)
(* endpoints table), SpecFactory (get_store_object under every             *)
(* configuration), SpecTwo (two writers side by side on the V3IO stores),  *)
(* SpecRace (two workers calling write_model_endpoint on one database),    *)
(* SpecDrop (delete_tsdb_resources on a database of two projects).         *)
(*                                                                         *)
(* Python values are modelled as records [type, items]: a dict carries its *)
(* key/value function in items, every other value carries the empty        *)
(* function.  Identifiers that end up in TDEngine subtable names are       *)
(* sequences of characters, so that concatenation and str.replace are      *)
(* computed as Python computes them.                                       *)
(***************************************************************************)
EXTENDS Integers, Sequences, FiniteSets, TLC

VARIABLES
    mlconf,         \* mlrun.mlconf.model_endpoint_monitoring: tsdb_store_type, store_type
    workers,        \* the writer instances the stream runtime deploys
    wstate,         \* per writer: "absent", "ready" (constructed), "init_failed"
    attrs,          \* per writer: the instance attributes __init__ has set
    kv_schemas,     \* per writer: self._kv_schemas
    pc,             \* per writer: position of the running do() call
    ip,             \* per writer: number of calls of do() that have returned
    raw,            \* per writer: the raw stream record handed to do()
    event,          \* per writer: the local variable `event` of do()
    error,          \* per writer: the exception do() raised, "" if none
    log,            \* per writer: the backend calls made for the current event
    pushes,         \* per writer: calls received by self._custom_notifier.push
    hist,           \* per writer: history of notify() and create_schema calls, crashes
    frames_writes,  \* calls of self._frames_client.write the backend accepted
    td_subtables,   \* TDEngine: subtable name -> its tags
    td_rows,        \* TDEngine: rows, each in a subtable
    kv,             \* V3IO KV: <<endpoint table, key>> -> attributes
    kv_schema_files,\* V3IO KV: endpoint tables that have a schema file
    names,          \* naming check: the (tuple, subtable name) pairs computed
    td_result,      \* query check: the last get_records call and its rows
    td_super,       \* TDEngine: the supertables that exist
    outcome,        \* the last connector or store call and what it returned or raised
    sql_table       \* SQL database: the model endpoints table

vars == <<mlconf, workers, wstate, attrs, kv_schemas, pc, ip, raw, event, error,
          log, pushes, hist, frames_writes, td_subtables, td_rows, kv,
          kv_schema_files, names, td_result, td_super, outcome, sql_table>>

writerVars == <<wstate, attrs, kv_schemas, pc, ip, raw, event, error, log, pushes, hist>>
storeVars == <<frames_writes, td_subtables, td_rows, kv, kv_schema_files>>
checkVars == <<names, td_result>>
connVars == <<td_super, outcome>>

----------------------------------------------------------------------------
(* Bounds *)

\* events one writer accepts
MaxEvents == 2

\* rows the TDEngine database holds in the query check
MaxRows == 3

\* events two writers side by side accept together
MaxEventsTwo == 2

----------------------------------------------------------------------------
(* Constants of the program *)

\* ResultStatusApp.detected
detected == 2

V3IO_TSDB == "v3io-tsdb"
TDEngine == "tdengine"
V3IO_NOSQL == "v3io-nosql"
SQL == "sql"

WARNING == "warning"

\* HTTPStatus.OK.value
HTTP_OK == 200

Writers == {"w1", "w2"}

\* The writer's project; a second project shares the TDEngine database.
Project1 == <<"p", "1">>
Project2 == <<"p", "2">>

EmptyMap == [k \in {} |-> 0]

Range(s) == {s[i] : i \in DOMAIN s}

Min(S) == CHOOSE x \in S : \A y \in S : x <= y

----------------------------------------------------------------------------
(* Python values *)

PyDict(items) == [type |-> "dict", items |-> items]
PyStrValue == [type |-> "str", items |-> EmptyMap]
PyNone == [type |-> "NoneType", items |-> EmptyMap]
PyList == [type |-> "list", items |-> EmptyMap]

\* Outcome of a call: exc = "" and a value, or the exception raised.
Return(v) == [exc |-> "", value |-> v]
Raise(e) == [exc |-> e, value |-> PyNone]

\* obj[key] with a string key: only a dict can be subscripted by a string.
getitem(obj, key) ==
    IF obj.type # "dict" THEN Raise("TypeError")
    ELSE IF key \notin DOMAIN obj.items THEN Raise("KeyError")
    ELSE Return(obj.items[key])

\* The declared fields of a writer event, WriterEvent.list().
WriterEventList ==
    << "application_name", "endpoint_id", "start_infer_time", "end_infer_time",
       "result_name", "result_value", "result_kind", "result_status",
       "result_extra_data", "current_stats" >>

\* Values of the current-stats field.  The first three are str values holding
\* JSON text, "{hist" is a str that is no JSON text, the last two are a dict and
\* None.
StatsTexts == {"{}", "{ }", "{\"hist\": 1}"}
StatsObjects == {"dict()", "dict(hist=1)"}
StatsIsStr(v) == v \in StatsTexts \cup {"{hist"}

\* The text stored as it is, not parsed.
json_loads_unparsed(v) == Return(v)

\* json.loads: TypeError for a value that is no str, JSONDecodeError (a
\* ValueError) for text that is no JSON, otherwise the parsed object.
json_loads(v) ==
    IF ~StatsIsStr(v) THEN Raise("TypeError")
    ELSE IF v \notin StatsTexts THEN Raise("JSONDecodeError")
    ELSE Return(IF v = "{\"hist\": 1}" THEN "dict(hist=1)" ELSE "dict()")

\* json.dumps of a parsed object.
json_dumps_value(v) == IF v = "dict(hist=1)" THEN "{\"hist\": 1}" ELSE IF v = "dict()" THEN "{}" ELSE v

IsoTimes == {"2023-09-19 16:26:06"}

\* datetime.datetime.fromisoformat
fromisoformat(s) ==
    IF s \in IsoTimes THEN Return(<<"datetime", 2023, 9, 19, 16, 26, 6>>) ELSE Raise("ValueError")

----------------------------------------------------------------------------
(* Inputs: the raw stream records *)

Endpoint1 == <<"e", "1">>
Endpoint2 == <<"e", "2">>
Endpoints == {Endpoint1, Endpoint2}
App1 == <<"a", "p", "p">>
Name1 == <<"d", "r", "i", "f", "t">>
Statuses == {0, 1, detected}

Restrict(f, S) == [k \in S |-> f[k]]

BaseItems(ep, status) ==
    [ application_name |-> App1,
      endpoint_id |-> ep,
      start_infer_time |-> "2023-09-19 14:26:06",
      end_infer_time |-> "2023-09-19 16:26:06",
      result_name |-> Name1,
      result_value |-> "0.32",
      result_kind |-> 0,
      result_status |-> status,
      result_extra_data |-> "",
      current_stats |-> "{}" ]

Declared == Range(WriterEventList)

WellFormedRaw == {PyDict(BaseItems(ep, st)) : ep \in Endpoints, st \in Statuses}

\* all declared fields, current stats in every form
StatsRaw ==
    {PyDict([BaseItems(Endpoint1, detected) EXCEPT !["current_stats"] = s]) :
        s \in {"{ }", "{\"hist\": 1}", "{hist", "None", "dict()"}}

\* all declared fields and one more key
ExtraKeyRaw ==
    {PyDict([k \in Declared \cup {"extra_key"} |->
                IF k = "extra_key" THEN "x" ELSE BaseItems(Endpoint1, detected)[k]])}

\* a declared field is missing
MissingRaw ==
    {PyDict(Restrict(BaseItems(Endpoint1, detected), D)) :
        D \in {Declared \ {"result_status"}, Declared \ {"current_stats"}, {"endpoint_id"}}}

\* all declared fields, an end time that is no ISO time
BadTimeRaw ==
    {PyDict([BaseItems(Endpoint2, detected) EXCEPT !["end_infer_time"] = "yesterday"])}

NonMappingRaw == {PyStrValue, PyNone, PyList}

\* a second result of the same application for the same endpoint
SecondResultRaw ==
    {PyDict([BaseItems(Endpoint1, 1) EXCEPT !["result_name"] = <<"k", "l">>])}

RawEvents ==
    WellFormedRaw \cup StatsRaw \cup ExtraKeyRaw \cup MissingRaw \cup BadTimeRaw
        \cup NonMappingRaw \cup SecondResultRaw

----------------------------------------------------------------------------
(* ModelMonitoringWriter._reconstruct_event *)

\* The two except clauses with their errors exchanged.
reconstruct_except_swapped(exc) ==
    CASE exc = "KeyError" -> "_WriterEventTypeError"
      [] exc = "TypeError" -> "_WriterEventValueError"
      [] OTHER -> exc

\* The except clauses of _reconstruct_event: KeyError and TypeError are
\* translated, every other exception propagates as it is.
reconstruct_except(exc) ==
    CASE exc = "KeyError" -> "_WriterEventValueError"
      [] exc = "TypeError" -> "_WriterEventTypeError"
      [] OTHER -> exc

\* The keys the projection {key: event[key] for key in WriterEvent.list()} reads.
reconstruct_keys == Range(WriterEventList)

\* The result of the call on the record ev.
reconstruct_result(ev) ==
    LET failing == {i \in DOMAIN WriterEventList :
                        getitem(ev, WriterEventList[i]).exc # ""}
    IN  IF failing # {}
        THEN Raise(reconstruct_except(getitem(ev, WriterEventList[Min(failing)]).exc))
        ELSE LET result_event == [key \in reconstruct_keys |-> ev.items[key]]
                 stats == getitem(ev, "current_stats")
                 parsed == IF stats.exc # "" THEN stats ELSE json_loads(stats.value)
             IN  IF parsed.exc # ""
                 THEN Raise(reconstruct_except(parsed.exc))
                 ELSE Return(PyDict([k \in DOMAIN result_event \cup {"current_stats"} |->
                                        IF k = "current_stats" THEN parsed.value
                                        ELSE result_event[k]]))

\* The call with its effect on the caller's record: the projection builds a
\* new dict and the parsed stats are stored in that dict, so arg is ev.
_reconstruct_event(ev) ==
    [exc |-> reconstruct_result(ev).exc, value |-> reconstruct_result(ev).value, arg |-> ev]

----------------------------------------------------------------------------
(* _Notifier *)

\* The threshold one status too low.
_should_send_event_possible(ev) == ev.items["result_status"] >= detected - 1

_should_send_event(ev) == ev.items["result_status"] >= detected

_generate_message(ev) ==
    << ev.items["application_name"], ev.items["result_kind"], ev.items["endpoint_id"],
       ev.items["start_infer_time"], ev.items["result_name"], ev.items["result_value"],
       ev.items["result_status"], ev.items["result_extra_data"] >>

\* The calls notify() makes on the notification pusher.
notify(ev, severity) ==
    IF ~_should_send_event(ev) THEN <<>>
    ELSE << [message |-> _generate_message(ev), severity |-> severity] >>

----------------------------------------------------------------------------
(* Time-series stores *)

\* mlrun.model_monitoring.get_tsdb_store: the connector variant the
\* configuration names, bound to the caller's project.
get_tsdb_store(conf) == conf.tsdb_store_type

\* str.replace(old, new) for one-character old and new.
str_replace(s, old, new) == [i \in DOMAIN s |-> IF s[i] = old THEN new ELSE s[i]]

RESULT == "result"
METRIC == "metric"

\* The key holding the metric/result name (ResultData.RESULT_NAME,
\* MetricData.METRIC_NAME).
name_key(kind) == IF kind = RESULT THEN "result_name" ELSE "metric_name"

\* TDEngineConnector.write_application_event, the subtable name.
td_table_name(project, endpoint_id, app, name) ==
    LET table_name == project \o <<"_">> \o endpoint_id \o <<"_">> \o app \o <<"_">>
    IN  str_replace(table_name \o <<"_">> \o name, "-", "_")

\* TDEngineConnector._init_super_tables: the keys of self.tables, in order.
SuperTables_ordered == <<"app_results", "metrics", "predictions">>

SuperTables == Range(SuperTables_ordered)

\* The supertable an event of this kind is written to.
td_super_table(kind) == IF kind = RESULT THEN "app_results" ELSE "metrics"

\* The tags of a supertable (AppResultTable.tags, Metrics.tags).
td_tags(kind) == {"project", "endpoint_id", "application_name", name_key(kind)}

\* The columns of a supertable (AppResultTable.columns, Metrics.columns).
td_columns(kind) ==
    IF kind = RESULT
    THEN {"end_infer_time", "start_infer_time", "result_value", "result_status",
          "result_kind", "current_stats"}
    ELSE {"end_infer_time", "start_infer_time", "metric_value"}

\* event[PROJECT] = self.project: the connector writes into the caller's dict.
td_set_project(ev, project) ==
    PyDict([k \in DOMAIN ev.items \cup {"project"} |->
                IF k = "project" THEN project ELSE ev.items[k]])

\* The fields write_application_event reads before its first statement.
td_reads(kind) == {"endpoint_id", "application_name", name_key(kind)}

\* CREATE TABLE IF NOT EXISTS <subtable> USING <supertable> TAGS (...): an
\* existing subtable keeps its tags.
td_create_subtable(subtables, subtable, kind, ev) ==
    IF subtable \in DOMAIN subtables THEN subtables
    ELSE [n \in DOMAIN subtables \cup {subtable} |->
            IF n = subtable
            THEN [super |-> td_super_table(kind),
                  tags |-> Restrict(ev.items, td_tags(kind))]
            ELSE subtables[n]]

\* INSERT INTO <subtable> VALUES (...): a row with the timestamp of an existing
\* row of the subtable replaces it.
td_insert(rows, subtable, kind, ev) ==
    {r \in rows : ~(r.subtable = subtable
                    /\ r.cols["end_infer_time"] = ev.items["end_infer_time"])}
        \cup {[subtable |-> subtable, cols |-> Restrict(ev.items, td_columns(kind))]}

\* The insert statement ahead of the create-subtable statement.
td_statements_insert_first == <<"td_insert", "td_create">>

\* The two statements write_application_event executes, in order.
td_statements == <<"td_create", "td_insert">>

\* The event fields a statement is built from.
td_statement_reads(stmt, kind) ==
    IF stmt = "td_create" THEN td_tags(kind) ELSE td_columns(kind)

\* self._connection.execute(statement): the database after the statement, or
\* the error of an insert into a subtable that does not exist.
td_execute(stmt, subtables, rows, subtable, kind, ev) ==
    IF stmt = "td_create"
    THEN [exc |-> "", subtables |-> td_create_subtable(subtables, subtable, kind, ev),
          rows |-> rows]
    ELSE IF subtable \notin DOMAIN subtables
    THEN [exc |-> "taosws.Error", subtables |-> subtables, rows |-> rows]
    ELSE [exc |-> "", subtables |-> subtables,
          rows |-> td_insert(rows, subtable, kind, ev)]

\* The event handed to the frames client with its extra data.
v3io_row_with_extra(ev) ==
    IF ev.type # "dict" THEN Raise("AttributeError")
    ELSE IF getitem(ev, "end_infer_time").exc # "" THEN Raise("KeyError")
    ELSE LET t == fromisoformat(ev.items["end_infer_time"])
         IN  IF t.exc # "" THEN t
             ELSE Return([k \in DOMAIN ev.items |->
                            IF k = "end_infer_time" THEN t.value ELSE ev.items[k]])

\* V3IOTSDBstore.write_application_event up to the frames call: the row handed
\* to the frames client, or the exception raised before the call.
v3io_row(ev) ==
    IF ev.type # "dict" THEN Raise("AttributeError")
    ELSE IF getitem(ev, "end_infer_time").exc # "" THEN Raise("KeyError")
    ELSE LET t == fromisoformat(ev.items["end_infer_time"])
         IN  IF t.exc # "" THEN t
             ELSE IF "result_extra_data" \notin DOMAIN ev.items THEN Raise("KeyError")
             ELSE Return([k \in DOMAIN ev.items \ {"result_extra_data"} |->
                            IF k = "end_infer_time" THEN t.value ELSE ev.items[k]])

\* pd.DataFrame.from_records([event]): the rows of the data frame written.
v3io_dfs(row) == <<row>>

\* index_cols of the frames write.
v3io_index_cols == <<"end_infer_time", "endpoint_id", "application_name", "result_name">>

\* The except clause around the frames write: a V3IOFramesError is logged and
\* swallowed, so the call returns normally.
v3io_write_except(exc) == IF exc = "V3IOFramesError" THEN "" ELSE exc

----------------------------------------------------------------------------
(* V3IO KV *)

\* json.dumps(event): the keys in insertion order, each with its value.
DumpOrder == WriterEventList \o <<"project">>

json_dumps(items) ==
    LET keep(k) == k \in DOMAIN items
        keys == SelectSeq(DumpOrder, keep)
    IN  [i \in DOMAIN keys |->
            <<keys[i], IF keys[i] = "current_stats" THEN json_dumps_value(items[keys[i]])
                       ELSE items[keys[i]]>>]

\* The keys _update_kv_db pops from its copy of the event.
kv_popped == {"endpoint_id", "application_name", "result_name"}

\* The update replacing the whole item by the one attribute.
kv_update_item(store, endpoint_id, app_name, metric_name, text) ==
    LET key == <<endpoint_id, app_name>>
    IN  [k \in DOMAIN store \cup {key} |->
            IF k = key THEN [m \in {metric_name} |-> text] ELSE store[k]]

\* kv.update(table_path=..+endpoint_id, key=app_name, attributes={metric_name: ..})
kv_update(store, endpoint_id, app_name, metric_name, text) ==
    LET key == <<endpoint_id, app_name>>
        old == IF key \in DOMAIN store THEN store[key] ELSE EmptyMap
    IN  [k \in DOMAIN store \cup {key} |->
            IF k = key
            THEN [m \in DOMAIN old \cup {metric_name} |->
                    IF m = metric_name THEN text ELSE old[m]]
            ELSE store[k]]

\* The seen list not consulted.
needs_kv_schema_unseen(conf, schemas, endpoint_id) == conf.store_type = V3IO_NOSQL

\* The condition under which _update_kv_db registers the read schema.
needs_kv_schema(conf, schemas, endpoint_id) ==
    conf.store_type = V3IO_NOSQL /\ endpoint_id \notin Range(schemas)

\* The seen list as one list of the module, shared by the writer instances.
module_kv_schemas(all, w) == all["w1"] \o all["w2"]

\* self._kv_schemas: the seen list of the instance, made by its __init__.
self_kv_schemas(all, w) == all[w]

\* _generate_kv_schema after create_schema returned: the seen list.
kv_schema_seen(schemas, endpoint_id, status_code) ==
    IF status_code # HTTP_OK THEN schemas ELSE Append(schemas, endpoint_id)

----------------------------------------------------------------------------
(* ModelMonitoringWriter *)

WriterProject(w) == Project1

\* ModelMonitoringWriter.__init__: the attributes set, and the exception raised
\* when _initilize_kv_db_configurations reads self._v3io_container before any
\* assignment to it.
writer_init(conf) ==
    LET tsdb == {"_custom_notifier", "_tsdb_configurations"}
                    \cup (IF conf.tsdb_store_type = V3IO_TSDB
                          THEN {"_v3io_container", "_v3io_path"} ELSE {})
        kvdb == tsdb \cup {"_kv_schemas"}
    IN  IF conf.store_type # V3IO_NOSQL THEN [exc |-> "", attrs |-> kvdb]
        ELSE IF "_v3io_container" \notin kvdb
             THEN [exc |-> "AttributeError", attrs |-> kvdb \cup {"_kv_client"}]
             ELSE [exc |-> "", attrs |-> kvdb \cup {"_kv_client"}]

\* The metadata update ahead of the time-series write.
do_calls_kv_first == <<"_reconstruct_event", "_update_kv_db", "_update_tsdb", "notify">>

\* The time-series write ahead of the normalization.
do_calls_tsdb_first == <<"_update_tsdb", "_reconstruct_event", "_update_kv_db", "notify">>

\* The calls of ModelMonitoringWriter.do, in order.
do_calls == <<"_reconstruct_event", "_update_tsdb", "_update_kv_db", "notify">>

\* The call do() makes next.
Step(w) == IF pc[w] = "do" /\ ip[w] < Len(do_calls) THEN do_calls[ip[w] + 1] ELSE ""

\* An exception leaves do(): raised by the normalization the event is rejected,
\* raised by a later call the event has failed.
raised_in(call) == IF call = "_reconstruct_event" THEN "Rejected" ELSE "Failed"

Fail(w, call, exc, entries) ==
    /\ pc' = [pc EXCEPT ![w] = raised_in(call)]
    /\ error' = [error EXCEPT ![w] = exc]
    /\ log' = [log EXCEPT ![w] = @ \o entries]
    /\ UNCHANGED ip

Returned(w, entries) ==
    /\ ip' = [ip EXCEPT ![w] = @ + 1]
    /\ log' = [log EXCEPT ![w] = @ \o entries]
    /\ UNCHANGED <<pc, error>>

\* The log entry of a backend that rejects a write.
Rejection(accept) == IF accept THEN <<>> ELSE <<"ts_reject">>

NoHist == [accepted |-> 0, notified |-> <<>>, schema_calls |-> <<>>, crashed |-> <<>>]

WriterInit(w) ==
    /\ w \in workers
    /\ wstate[w] = "absent"
    /\ LET r == writer_init(mlconf)
       IN  /\ wstate' = [wstate EXCEPT ![w] = IF r.exc = "" THEN "ready" ELSE "init_failed"]
           /\ attrs' = [attrs EXCEPT ![w] = r.attrs]
    /\ UNCHANGED <<mlconf, workers, sql_table, kv_schemas, pc, ip, raw, event, error, log, pushes,
                   hist, storeVars, checkVars, connVars>>

\* The stream runtime hands the next record to do().
Accept(w, r) ==
    /\ w \in workers
    /\ wstate[w] = "ready"
    /\ pc[w] \in {"idle", "Done", "Rejected", "Failed"}
    /\ hist[w].accepted < MaxEvents
    /\ pc' = [pc EXCEPT ![w] = "do"]
    /\ ip' = [ip EXCEPT ![w] = 0]
    /\ raw' = [raw EXCEPT ![w] = r]
    /\ event' = [event EXCEPT ![w] = r]
    /\ error' = [error EXCEPT ![w] = ""]
    /\ log' = [log EXCEPT ![w] = <<>>]
    /\ hist' = [hist EXCEPT ![w].accepted = @ + 1]
    /\ UNCHANGED <<mlconf, workers, sql_table, wstate, attrs, kv_schemas, pushes, storeVars, checkVars, connVars>>

Reconstruct(w) ==
    /\ Step(w) = "_reconstruct_event"
    /\ LET r == _reconstruct_event(event[w])
       IN  IF r.exc = ""
           THEN /\ event' = [event EXCEPT ![w] = r.value]
                /\ raw' = [raw EXCEPT ![w] = r.arg]
                /\ Returned(w, <<>>)
           ELSE /\ Fail(w, "_reconstruct_event", r.exc, <<>>)
                /\ event' = [event EXCEPT ![w] = r.arg]
                /\ raw' = [raw EXCEPT ![w] = r.arg]
    /\ UNCHANGED <<mlconf, workers, sql_table, wstate, attrs, kv_schemas, pushes, hist,
                   storeVars, checkVars, connVars>>

\* _update_tsdb with the V3IO frames store.
UpdateTsdbV3IO(w) ==
    /\ Step(w) = "_update_tsdb"
    /\ get_tsdb_store(mlconf) = V3IO_TSDB
    /\ LET row == v3io_row(event[w])
       IN  IF row.exc # ""
           THEN /\ Fail(w, "_update_tsdb", row.exc, <<>>)
                /\ UNCHANGED frames_writes
           ELSE \E accept \in BOOLEAN :
                  LET exc == v3io_write_except(IF accept THEN "" ELSE "V3IOFramesError")
                  IN  /\ frames_writes' =
                            IF accept
                            THEN Append(frames_writes, [dfs |-> v3io_dfs(row.value),
                                                        index_cols |-> v3io_index_cols])
                            ELSE frames_writes
                      /\ IF exc = ""
                         THEN Returned(w, <<"ts_issue">> \o Rejection(accept) \o <<"ts_return">>)
                         ELSE Fail(w, "_update_tsdb", exc,
                                   <<"ts_issue">> \o Rejection(accept) \o <<"ts_raise">>)
    /\ UNCHANGED <<mlconf, workers, sql_table, wstate, attrs, kv_schemas, raw, event, pushes, hist,
                   td_subtables, td_rows, kv, kv_schema_files, checkVars, connVars>>

\* _update_tsdb with the TDEngine connector: the subtable name, the project
\* field and the first statement.
UpdateTsdbTDCreate(w) ==
    /\ Step(w) = "_update_tsdb"
    /\ get_tsdb_store(mlconf) = TDEngine
    /\ LET ev == event[w]
           failing == {k \in td_reads(RESULT) : getitem(ev, k).exc # ""}
       IN  IF failing # {}
           THEN /\ Fail(w, "_update_tsdb", getitem(ev, CHOOSE k \in failing : TRUE).exc, <<>>)
                /\ UNCHANGED <<event, td_subtables, td_rows>>
           ELSE LET subtable == td_table_name(WriterProject(w), ev.items["endpoint_id"],
                                              ev.items["application_name"],
                                              ev.items["result_name"])
                    ev2 == td_set_project(ev, WriterProject(w))
                    stmt == td_statements[1]
                IN  /\ event' = [event EXCEPT ![w] = ev2]
                    /\ IF ~(td_statement_reads(stmt, RESULT) \subseteq DOMAIN ev2.items)
                       THEN /\ Fail(w, "_update_tsdb", "KeyError", <<>>)
                            /\ UNCHANGED <<td_subtables, td_rows>>
                       ELSE \E accept \in BOOLEAN :
                              LET r == td_execute(stmt, td_subtables, td_rows, subtable,
                                                  RESULT, ev2)
                              IN  IF accept /\ r.exc = ""
                                  THEN /\ td_subtables' = r.subtables
                                       /\ td_rows' = r.rows
                                       /\ pc' = [pc EXCEPT ![w] = "td_insert"]
                                       /\ log' = [log EXCEPT ![w] = @ \o <<"ts_issue", stmt>>]
                                       /\ UNCHANGED <<ip, error>>
                                  ELSE /\ Fail(w, "_update_tsdb", "taosws.Error",
                                               <<"ts_issue", stmt, "ts_reject", "ts_raise">>)
                                       /\ UNCHANGED <<td_subtables, td_rows>>
    /\ UNCHANGED <<mlconf, workers, sql_table, wstate, attrs, kv_schemas, raw, pushes, hist,
                   frames_writes, kv, kv_schema_files, checkVars, connVars>>

\* _update_tsdb with the TDEngine connector: the second statement.
UpdateTsdbTDInsert(w) ==
    /\ pc[w] = "td_insert"
    /\ LET ev == event[w]
           subtable == td_table_name(WriterProject(w), ev.items["endpoint_id"],
                                     ev.items["application_name"], ev.items["result_name"])
           stmt == td_statements[2]
       IN  IF ~(td_statement_reads(stmt, RESULT) \subseteq DOMAIN ev.items)
           THEN /\ Fail(w, "_update_tsdb", "KeyError", <<>>)
                /\ UNCHANGED <<td_subtables, td_rows>>
           ELSE \E accept \in BOOLEAN :
                  LET r == td_execute(stmt, td_subtables, td_rows, subtable, RESULT, ev)
                  IN  IF accept /\ r.exc = ""
                      THEN /\ td_subtables' = r.subtables
                           /\ td_rows' = r.rows
                           /\ pc' = [pc EXCEPT ![w] = "do"]
                           /\ ip' = [ip EXCEPT ![w] = @ + 1]
                           /\ log' = [log EXCEPT ![w] = @ \o <<stmt, "ts_return">>]
                           /\ UNCHANGED error
                      ELSE /\ Fail(w, "_update_tsdb", "taosws.Error",
                                   <<stmt, "ts_reject", "ts_raise">>)
                           /\ UNCHANGED <<td_subtables, td_rows>>
    /\ UNCHANGED <<mlconf, workers, sql_table, wstate, attrs, kv_schemas, raw, event, pushes, hist,
                   frames_writes, kv, kv_schema_files, checkVars, connVars>>

\* The writer's process dies between the two statements; the stream runtime
\* constructs a new writer, which starts without the attributes, the seen list
\* and the schema-call history of the old one.
Crash(w) ==
    /\ pc[w] = "td_insert"
    /\ wstate' = [wstate EXCEPT ![w] = "absent"]
    /\ attrs' = [attrs EXCEPT ![w] = {}]
    /\ kv_schemas' = [kv_schemas EXCEPT ![w] = <<>>]
    /\ pc' = [pc EXCEPT ![w] = "idle"]
    /\ ip' = [ip EXCEPT ![w] = 0]
    /\ event' = [event EXCEPT ![w] = PyNone]
    /\ log' = [log EXCEPT ![w] = <<>>]
    /\ hist' = [hist EXCEPT ![w].schema_calls = <<>>, ![w].crashed = Append(@, raw[w])]
    /\ UNCHANGED <<mlconf, workers, sql_table, raw, error, pushes, storeVars, checkVars, connVars>>

\* _update_kv_db: the attribute update and, for an endpoint id not seen yet,
\* the schema registration of _generate_kv_schema.
UpdateKvDb(w) ==
    /\ Step(w) = "_update_kv_db"
    /\ LET ev == event[w]
           failing == {k \in kv_popped : getitem(ev, k).exc # ""}
       IN  IF ev.type # "dict"
           THEN /\ Fail(w, "_update_kv_db", "AttributeError", <<>>)
                /\ UNCHANGED <<kv, kv_schema_files, kv_schemas, hist>>
           ELSE IF failing # {}
           THEN /\ Fail(w, "_update_kv_db", "KeyError", <<>>)
                /\ UNCHANGED <<kv, kv_schema_files, kv_schemas, hist>>
           ELSE IF "_kv_client" \notin attrs[w]
           THEN /\ Fail(w, "_update_kv_db", "AttributeError", <<>>)
                /\ UNCHANGED <<kv, kv_schema_files, kv_schemas, hist>>
           ELSE LET endpoint_id == ev.items["endpoint_id"]
                    app_name == ev.items["application_name"]
                    metric_name == ev.items["result_name"]
                    seen == endpoint_id \in Range(self_kv_schemas(kv_schemas, w))
                    text == json_dumps(Restrict(ev.items, DOMAIN ev.items \ kv_popped))
                IN  \E accept \in BOOLEAN, status_code \in {HTTP_OK, 500} :
                      IF ~accept
                      THEN /\ Fail(w, "_update_kv_db", "V3IOError", <<"kv_issue", "kv_raise">>)
                           /\ UNCHANGED <<kv, kv_schema_files, kv_schemas, hist>>
                      ELSE /\ kv' = kv_update(kv, endpoint_id, app_name, metric_name, text)
                           /\ IF ~needs_kv_schema(mlconf, self_kv_schemas(kv_schemas, w),
                                                   endpoint_id)
                              THEN /\ Returned(w, <<"kv_issue", "kv_return">>)
                                   /\ UNCHANGED <<kv_schema_files, kv_schemas, hist>>
                              ELSE /\ hist' = [hist EXCEPT ![w].schema_calls =
                                                 Append(@, [endpoint_id |-> endpoint_id,
                                                            seen |-> seen,
                                                            status_code |-> status_code])]
                                   /\ kv_schemas' = [kv_schemas EXCEPT ![w] =
                                                 kv_schema_seen(@, endpoint_id, status_code)]
                                   /\ kv_schema_files' =
                                        IF status_code = HTTP_OK
                                        THEN kv_schema_files \cup {endpoint_id}
                                        ELSE kv_schema_files
                                   /\ IF status_code = HTTP_OK
                                      THEN Returned(w, <<"kv_issue", "kv_return",
                                                         "schema_issue", "schema_return">>)
                                      ELSE Fail(w, "_update_kv_db", "MLRunBadRequestError",
                                                <<"kv_issue", "kv_return",
                                                  "schema_issue", "schema_raise">>)
    /\ UNCHANGED <<mlconf, workers, sql_table, wstate, attrs, raw, event, pushes,
                   frames_writes, td_subtables, td_rows, checkVars, connVars>>

\* _Notifier(event, self._custom_notifier).notify()
Notify(w) ==
    /\ Step(w) = "notify"
    /\ LET ev == event[w]
       IN  IF getitem(ev, "result_status").exc # ""
           THEN /\ Fail(w, "notify", getitem(ev, "result_status").exc, <<"notify">>)
                /\ UNCHANGED <<pushes, hist>>
           ELSE LET calls == notify(ev, WARNING)
                IN  /\ pushes' = [pushes EXCEPT ![w] = @ \o calls]
                    /\ hist' = [hist EXCEPT ![w].notified =
                                    Append(@, ev.items["result_status"])]
                    /\ Returned(w, <<"notify">> \o [i \in DOMAIN calls |-> "push"])
    /\ UNCHANGED <<mlconf, workers, sql_table, wstate, attrs, kv_schemas, raw, event,
                   storeVars, checkVars, connVars>>

\* do() returns.
Complete(w) ==
    /\ pc[w] = "do"
    /\ ip[w] = Len(do_calls)
    /\ pc' = [pc EXCEPT ![w] = "Done"]
    /\ UNCHANGED <<mlconf, workers, sql_table, wstate, attrs, kv_schemas, ip, raw, event, error, log,
                   pushes, hist, storeVars, checkVars, connVars>>

\* The state of the event a writer is processing, in the names of the
\* pipeline's state machine.
StateOf(w) ==
    CASE pc[w] = "do" ->
            <<"Received", "Normalized", "TSWritten", "MetadataWritten", "Notified">>[ip[w] + 1]
      [] pc[w] = "td_insert" -> "Normalized"
      [] OTHER -> pc[w]

----------------------------------------------------------------------------
(* The writer pipeline: one writer, every configuration *)

Configurations ==
    [tsdb_store_type : {V3IO_TSDB, TDEngine}, store_type : {V3IO_NOSQL, SQL}]

InitWriters ==
    /\ wstate = [w \in Writers |-> "absent"]
    /\ attrs = [w \in Writers |-> {}]
    /\ kv_schemas = [w \in Writers |-> <<>>]
    /\ pc = [w \in Writers |-> "idle"]
    /\ ip = [w \in Writers |-> 0]
    /\ raw = [w \in Writers |-> PyNone]
    /\ event = [w \in Writers |-> PyNone]
    /\ error = [w \in Writers |-> ""]
    /\ log = [w \in Writers |-> <<>>]
    /\ pushes = [w \in Writers |-> <<>>]
    /\ hist = [w \in Writers |-> NoHist]

InitStores ==
    /\ frames_writes = <<>>
    /\ td_subtables = EmptyMap
    /\ td_rows = {}
    /\ kv = EmptyMap
    /\ kv_schema_files = {}

\* No get_records call has been made.
NoResult == [project |-> <<>>, table |-> "", filter_query |-> <<>>, rows |-> {}]

InitChecks ==
    /\ names = {}
    /\ td_result = NoResult

\* The SQL database before the first write_model_endpoint: engine.has_table
\* is false.
NoTable == [exists |-> FALSE, rows |-> {}]

\* No connector call has been made.
NoOutcome == [op |-> "", exc |-> ""]

\* The supertables exist, as after a create_tables call at deployment.
InitConnector ==
    /\ td_super = SuperTables
    /\ outcome = NoOutcome
    /\ sql_table = NoTable

Init ==
    /\ mlconf \in Configurations
    /\ workers = {"w1"}
    /\ InitWriters
    /\ InitStores
    /\ InitChecks
    /\ InitConnector

WriterNext(w) ==
    \/ WriterInit(w)
    \/ \E r \in RawEvents : Accept(w, r)
    \/ Reconstruct(w)
    \/ UpdateTsdbV3IO(w)
    \/ UpdateTsdbTDCreate(w)
    \/ UpdateTsdbTDInsert(w)
    \/ Crash(w)
    \/ UpdateKvDb(w)
    \/ Notify(w)
    \/ Complete(w)

Next == \E w \in Writers : WriterNext(w)

Spec == Init /\ [][Next]_vars

----------------------------------------------------------------------------
(* Two writers of one project, deployed side by side on the V3IO stores *)

\* The records the two writers receive: results of two endpoints, one of them
\* with a detection.
TwoWriterEvents ==
    {PyDict(BaseItems(Endpoint1, detected)), PyDict(BaseItems(Endpoint2, 0))}

InitTwo ==
    /\ mlconf = [tsdb_store_type |-> V3IO_TSDB, store_type |-> V3IO_NOSQL]
    /\ workers = Writers
    /\ InitWriters
    /\ InitStores
    /\ InitChecks
    /\ InitConnector

NextTwo ==
    \E w \in workers :
       \/ WriterInit(w)
       \/ \E r \in TwoWriterEvents :
             hist["w1"].accepted + hist["w2"].accepted < MaxEventsTwo /\ Accept(w, r)
       \/ Reconstruct(w)
       \/ UpdateTsdbV3IO(w)
       \/ UpdateKvDb(w)
       \/ Notify(w)
       \/ Complete(w)

SpecTwo == InitTwo /\ [][NextTwo]_vars

----------------------------------------------------------------------------
(* TDEngineConnector.get_records *)

\* A filter expression is a sequence of tokens: comparisons column = 'value',
\* the operators and / or, and parentheses.
Atom(col, val) == [kind |-> "atom", col |-> col, val |-> val]
Op(kind) == [kind |-> kind, col |-> "", val |-> <<>>]
AND == Op("and")
OR == Op("or")
LPAR == Op("(")
RPAR == Op(")")

\* The time bound start <= time <= end of a query.
TimeBound(start, end) == [kind |-> "time", col |-> start, val |-> end]

\* get_records: the caller's filter followed by ' and ' and the project
\* comparison, written into one string.
get_records_filter(project, filter_query) ==
    (IF filter_query # <<>> THEN filter_query \o <<AND>> ELSE <<>>)
        \o <<Atom("project", project)>>

\* TDEngineSchema._get_records_query: the condition of the SELECT statement,
\* the filter and the time bound.
_get_records_query(filter_query, start, end) ==
    filter_query \o <<AND, TimeBound(start, end)>>

\* Parentheses open before position i.
Depth(toks, i) ==
    Cardinality({j \in 1..(i - 1) : toks[j].kind = "("})
        - Cardinality({j \in 1..(i - 1) : toks[j].kind = ")"})

\* Positions of the operator outside every parenthesis.
TopLevel(toks, op) == {i \in DOMAIN toks : toks[i].kind = op /\ Depth(toks, i) = 0}

\* The value a row has for a column: a tag of its subtable, or a column.
RowValue(subtables, row, col) ==
    IF col \in DOMAIN subtables[row.subtable].tags
    THEN subtables[row.subtable].tags[col]
    ELSE IF col \in DOMAIN row.cols THEN row.cols[col] ELSE <<>>

\* The backend's evaluation of a condition on a row: or binds weaker than and.
RECURSIVE EvalOr(_, _, _)
RECURSIVE EvalAnd(_, _, _)
EvalPrimary(subtables, row, toks) ==
    IF Len(toks) = 1
    THEN IF toks[1].kind = "time" THEN toks[1].col = "0" /\ toks[1].val = "now"
         ELSE toks[1].kind = "atom" /\ RowValue(subtables, row, toks[1].col) = toks[1].val
    ELSE /\ Len(toks) > 2
         /\ toks[1].kind = "("
         /\ toks[Len(toks)].kind = ")"
         /\ EvalOr(subtables, row, SubSeq(toks, 2, Len(toks) - 1))

EvalAnd(subtables, row, toks) ==
    LET ands == TopLevel(toks, "and")
    IN  IF ands = {} THEN EvalPrimary(subtables, row, toks)
        ELSE /\ EvalPrimary(subtables, row, SubSeq(toks, 1, Min(ands) - 1))
             /\ EvalAnd(subtables, row, SubSeq(toks, Min(ands) + 1, Len(toks)))

EvalOr(subtables, row, toks) ==
    LET ors == TopLevel(toks, "or")
    IN  IF ors = {} THEN EvalAnd(subtables, row, toks)
        ELSE \/ EvalAnd(subtables, row, SubSeq(toks, 1, Min(ors) - 1))
             \/ EvalOr(subtables, row, SubSeq(toks, Min(ors) + 1, Len(toks)))

\* The rows of a supertable a query returns.
td_query(subtables, rows, table, where) ==
    {r \in rows : subtables[r.subtable].super = table /\ EvalOr(subtables, r, where)}

\* A table name as it stands in a statement: the name of a supertable is one
\* word, the name of a subtable the character sequence of td_table_name.
td_name(table) == <<table>>

\* self._connection.query(full_query): the rows of the supertable or subtable
\* named, or the QueryError of a statement the backend rejects (reject is the
\* backend's diagnostic, "" when it has none) or of a table that does not exist.
td_connection_query(super, subtables, rows, table, where, reject) ==
    IF reject # ""
    THEN [exc |-> "taosws.QueryError", diag |-> reject, rows |-> {}]
    ELSE IF table \in {td_name(t) : t \in super}
    THEN [exc |-> "", diag |-> "", rows |-> td_query(subtables, rows, table[1], where)]
    ELSE IF table \in DOMAIN subtables
    THEN [exc |-> "", diag |-> "",
          rows |-> {r \in rows : r.subtable = table /\ EvalOr(subtables, r, where)}]
    ELSE [exc |-> "taosws.QueryError", diag |-> "Table does not exist", rows |-> {}]

\* The message of the error get_records raises.
get_records_message(table, diag) ==
    <<"Failed to query table ", table, " in database ", "self.database", ", ", diag>>

\* get_records returning an empty result for a query the backend rejects.
get_records_swallowing(super, subtables, rows, project, table, start, end, filter_query, reject) ==
    LET r == td_connection_query(super, subtables, rows, table,
                 _get_records_query(get_records_filter(project, filter_query), start, end),
                 reject)
    IN  [exc |-> "", msg |-> <<>>, rows |-> r.rows]

\* TDEngineConnector.get_records: the result, or the error raised for a
\* QueryError of the backend.
get_records(super, subtables, rows, project, table, start, end, filter_query, reject) ==
    LET r == td_connection_query(super, subtables, rows, table,
                 _get_records_query(get_records_filter(project, filter_query), start, end),
                 reject)
    IN  IF r.exc = "taosws.QueryError"
        THEN [exc |-> "MLRunInvalidArgumentError",
              msg |-> get_records_message(table, r.diag), rows |-> {}]
        ELSE [exc |-> "", msg |-> <<>>, rows |-> r.rows]

\* read_metrics_data: the filter over the endpoint and the requested
\* (application, name) pairs.
read_metrics_filter(endpoint_id, metrics, kind) ==
    LET pair(m) == <<LPAR, Atom("application_name", m[1]), AND,
                     Atom(name_key(kind), m[2]), RPAR>>
        Join[i \in 0..Len(metrics)] ==
            IF i = 0 THEN <<>>
            ELSE IF i = 1 THEN pair(metrics[1])
            ELSE Join[i - 1] \o <<OR>> \o pair(metrics[i])
    IN  <<Atom("endpoint_id", endpoint_id), AND>> \o Join[Len(metrics)]

----------------------------------------------------------------------------
(* The TDEngine database shared by the connectors of two projects *)

Projects == {Project1, Project2}

EndpointDash == <<"e", "-", "1">>
EndpointUnderscore == <<"e", "_", "1">>
EndpointShort == <<"e">>
AppA == <<"a">>
App1A == <<"1", "_", "a">>

\* (endpoint id, application name, name, kind) of the events written
TDEvents ==
    ({EndpointDash, EndpointUnderscore} \X {AppA} \X {Name1} \X {RESULT, METRIC})
        \cup ({EndpointShort} \X {App1A} \X {Name1} \X {RESULT})

TDEvent(t) ==
    IF t[4] = RESULT
    THEN PyDict([BaseItems(t[1], 0) EXCEPT !["application_name"] = t[2],
                                           !["result_name"] = t[3],
                                           !["current_stats"] = "dict()"])
    ELSE PyDict([application_name |-> t[2], endpoint_id |-> t[1],
                 start_infer_time |-> "2023-09-19 14:26:06",
                 end_infer_time |-> "2023-09-19 16:26:06",
                 metric_name |-> t[3], metric_value |-> "0.32"])

\* The filters callers pass to get_records.
Filters ==
    { <<>>,
      <<Atom("endpoint_id", EndpointDash)>>,
      <<Atom("endpoint_id", EndpointDash), OR, Atom("endpoint_id", EndpointShort)>>,
      <<LPAR, Atom("endpoint_id", EndpointDash), OR, Atom("endpoint_id", EndpointShort), RPAR>>,
      read_metrics_filter(EndpointDash, <<<<AppA, Name1>>>>, RESULT),
      read_metrics_filter(EndpointShort, <<<<AppA, Name1>>, <<App1A, Name1>>>>, RESULT) }

\* The (supertable, filter) pairs of the get_records calls.
Queries == ({"app_results"} \X Filters) \cup {<<"metrics", <<>>>>}

\* write_application_event of the connector of a project: subtable name,
\* project field, create-subtable statement, insert statement.
WriteApplicationEvent(project, t) ==
    /\ Cardinality(names) < MaxRows
    /\ LET kind == t[4]
           ev == td_set_project(TDEvent(t), project)
           subtable == td_table_name(project, ev.items["endpoint_id"],
                                     ev.items["application_name"],
                                     ev.items[name_key(kind)])
           created == td_create_subtable(td_subtables, subtable, kind, ev)
       IN  /\ td_subtables' = created
           /\ td_rows' = td_insert(td_rows, subtable, kind, ev)
           /\ names' = names \cup {[project |-> project, endpoint_id |-> t[1],
                                    app |-> t[2], name |-> t[3], kind |-> kind,
                                    subtable |-> subtable]}
    /\ UNCHANGED <<mlconf, workers, sql_table, writerVars, frames_writes, kv, kv_schema_files, td_result,
                   connVars>>

\* get_records of the connector of a project, over all times.
GetRecords(project, table, filter_query) ==
    /\ td_result' = [project |-> project, table |-> table, filter_query |-> filter_query,
                     rows |-> get_records(td_super, td_subtables, td_rows, project,
                                          td_name(table), "0", "now", filter_query,
                                          "").rows]
    /\ UNCHANGED <<mlconf, workers, sql_table, writerVars, storeVars, names, connVars>>

InitTD ==
    /\ mlconf = [tsdb_store_type |-> TDEngine, store_type |-> SQL]
    /\ workers = {}
    /\ InitWriters
    /\ InitStores
    /\ InitChecks
    /\ InitConnector

NextTD ==
    \/ \E project \in Projects, t \in TDEvents : WriteApplicationEvent(project, t)
    \/ \E project \in Projects, q \in Queries : GetRecords(project, q[1], q[2])

SpecTD == InitTD /\ [][NextTD]_vars

----------------------------------------------------------------------------
(* The operations of one TDEngine connector on a database that starts empty *)

\* self._connection.execute of TDEngineSchema._create_super_table_query, a
\* CREATE TABLE statement: the backend refuses to create a table that exists.
td_create_super_table(super, table) ==
    IF table \in super
    THEN [exc |-> "taosws.QueryError", diag |-> "Table already exists", super |-> super]
    ELSE [exc |-> "", diag |-> "", super |-> super \cup {table}]

\* TDEngineConnector.create_tables from the i-th table of self.tables on;
\* fail_at is the statement the backend rejects for a reason of its own.
RECURSIVE create_tables_from(_, _, _)
create_tables_from(super, i, fail_at) ==
    IF i > Len(SuperTables_ordered) THEN [exc |-> "", diag |-> "", super |-> super]
    ELSE IF i = fail_at
    THEN [exc |-> "taosws.QueryError", diag |-> "Out of memory", super |-> super]
    ELSE LET r == td_create_super_table(super, SuperTables_ordered[i])
         IN  IF r.exc # "" THEN r ELSE create_tables_from(r.super, i + 1, fail_at)

create_tables(super, fail_at) == create_tables_from(super, 1, fail_at)

\* The subtables of a project, the result of TDEngineSchema._get_subtables_query.
td_project_subtables(subtables, project) ==
    {n \in DOMAIN subtables : subtables[n].tags["project"] = project}

\* The place of a subtable's supertable in self.tables.
td_rank(subtables, n) ==
    CHOOSE i \in DOMAIN SuperTables_ordered : SuperTables_ordered[i] = subtables[n].super

\* The orders in which delete_tsdb_resources can meet the subtables: supertable
\* by supertable in the order of self.tables, within a supertable in the order
\* the backend lists them.
td_drop_orders(subtables, targets) ==
    LET rank(n) == td_rank(subtables, n)
    IN  {order \in [1..Cardinality(targets) -> targets] :
           /\ \A i, j \in DOMAIN order : i # j => order[i] # order[j]
           /\ \A i, j \in DOMAIN order : i < j => rank(order[i]) <= rank(order[j])}

\* The loop returning after the first drop.
delete_from_first(subtables, rows, order, i, failing, attempted) ==
    IF i > Len(order)
    THEN [exc |-> "", subtables |-> subtables, rows |-> rows, attempted |-> attempted]
    ELSE IF order[i] \in failing
    THEN [exc |-> "taosws.QueryError", subtables |-> subtables, rows |-> rows,
          attempted |-> attempted \cup {order[i]}]
    ELSE [exc |-> "", subtables |-> [n \in DOMAIN subtables \ {order[i]} |-> subtables[n]],
          rows |-> {r \in rows : r.subtable # order[i]},
          attempted |-> attempted \cup {order[i]}]

\* TDEngineConnector.delete_tsdb_resources from the i-th subtable on; failing
\* are the subtables whose drop statement the backend rejects.
RECURSIVE delete_from(_, _, _, _, _, _)
delete_from(subtables, rows, order, i, failing, attempted) ==
    IF i > Len(order)
    THEN [exc |-> "", subtables |-> subtables, rows |-> rows, attempted |-> attempted]
    ELSE IF order[i] \in failing
    THEN [exc |-> "taosws.QueryError", subtables |-> subtables, rows |-> rows,
          attempted |-> attempted \cup {order[i]}]
    ELSE delete_from([n \in DOMAIN subtables \ {order[i]} |-> subtables[n]],
                     {r \in rows : r.subtable # order[i]},
                     order, i + 1, failing, attempted \cup {order[i]})

\* The loop over self.tables: the subtables of the supertables listed before
\* the first one that does not exist are dropped, then the listing query of the
\* missing supertable raises.
delete_tsdb_resources(super, subtables, rows, order, failing) ==
    LET missing == {i \in DOMAIN SuperTables_ordered : SuperTables_ordered[i] \notin super}
        reached(n) == missing = {} \/ td_rank(subtables, n) < Min(missing)
        r == delete_from(subtables, rows, SelectSeq(order, reached), 1, failing, {})
    IN  IF r.exc = "" /\ missing # {} THEN [r EXCEPT !.exc = "taosws.QueryError"] ELSE r

\* (project, (endpoint id, application name, name, kind)) of the events the
\* connectors of the two projects write
ConnEvents ==
    { <<Project1, <<EndpointDash, AppA, Name1, RESULT>>>>,
      <<Project1, <<EndpointShort, App1A, Name1, RESULT>>>>,
      <<Project1, <<EndpointDash, AppA, Name1, METRIC>>>>,
      <<Project2, <<EndpointDash, AppA, Name1, RESULT>>>> }

CreateTables(fail_at) ==
    /\ LET r == create_tables(td_super, fail_at)
       IN  /\ td_super' = r.super
           /\ outcome' = [op |-> "create_tables", exc |-> r.exc, diag |-> r.diag,
                          fail_at |-> fail_at, super |-> td_super]
    /\ UNCHANGED <<mlconf, workers, sql_table, writerVars, storeVars, checkVars>>

\* write_application_event; the create-subtable statement fails when the
\* supertable does not exist.
ConnWrite(project, t) ==
    IF td_super_table(t[4]) \in td_super
    THEN WriteApplicationEvent(project, t)
    ELSE /\ outcome' = [op |-> "write_application_event", exc |-> "taosws.QueryError"]
         /\ UNCHANGED <<mlconf, workers, sql_table, writerVars, storeVars, checkVars, td_super>>

DeleteTsdbResources(project) ==
    /\ LET targets == td_project_subtables(td_subtables, project)
       IN  \E order \in td_drop_orders(td_subtables, targets), failing \in SUBSET targets :
             LET r == delete_tsdb_resources(td_super, td_subtables, td_rows, order, failing)
             IN  /\ td_subtables' = r.subtables
                 /\ td_rows' = r.rows
                 /\ outcome' = [op |-> "delete_tsdb_resources", exc |-> r.exc,
                                project |-> project, super |-> td_super,
                                targets |-> targets, failing |-> failing,
                                attempted |-> r.attempted,
                                remaining |-> targets \cap DOMAIN r.subtables,
                                before |-> [subtables |-> td_subtables, rows |-> td_rows],
                                after |-> [subtables |-> r.subtables, rows |-> r.rows,
                                           super |-> td_super]]
    /\ UNCHANGED <<mlconf, workers, sql_table, writerVars, frames_writes, kv, kv_schema_files,
                   checkVars, td_super>>

\* The table arguments of the get_records calls: the three supertables, the
\* subtable of an event, and a name no table has.
ConnTables ==
    {td_name(t) : t \in SuperTables}
        \cup {td_table_name(Project1, EndpointDash, AppA, Name1), td_name("no_such_table")}

\* The diagnostics of a backend that rejects a statement; "" when it accepts.
Diagnostics == {"", "syntax error near 'and'"}

ConnGetRecords(project, table, filter_query, reject) ==
    /\ LET r == get_records(td_super, td_subtables, td_rows, project, table, "0", "now",
                            filter_query, reject)
       IN  outcome' = [op |-> "get_records", exc |-> r.exc, msg |-> r.msg, rows |-> r.rows,
                       project |-> project, table |-> table, reject |-> reject,
                       known |-> {td_name(t) : t \in td_super} \cup DOMAIN td_subtables]
    /\ UNCHANGED <<mlconf, workers, sql_table, writerVars, storeVars, checkVars, td_super>>

\* The (application name, name) of a stored row.
RowMetric(subtables, row, kind) ==
    <<subtables[row.subtable].tags["application_name"],
      subtables[row.subtable].tags[name_key(kind)]>>

\* TSDBConnector.df_to_results_values / df_to_metrics_values: one value series
\* per (application name, name) of the data frame, and no-data for every
\* requested metric without one.
df_to_values(subtables, df, metrics, kind) ==
    LET grouped == {RowMetric(subtables, r, kind) : r \in df}
    IN  {[type |-> "values", metric |-> g,
          values |-> {r \in df : RowMetric(subtables, r, kind) = g}] : g \in grouped}
          \cup {[type |-> "no_data", metric |-> m, values |-> {}] :
                   m \in Range(metrics) \ grouped}

\* TDEngineConnector.read_metrics_data
read_metrics_data(super, subtables, rows, project, endpoint_id, metrics, type, reject) ==
    IF type \notin {"metrics", "results"}
    THEN [exc |-> "MLRunInvalidArgumentError", out |-> {}]
    ELSE LET kind == IF type = "metrics" THEN METRIC ELSE RESULT
             df == get_records(super, subtables, rows, project,
                               td_name(td_super_table(kind)), "0", "now",
                               read_metrics_filter(endpoint_id, metrics, kind), reject)
         IN  IF df.exc # "" THEN [exc |-> df.exc, out |-> {}]
             ELSE [exc |-> "", out |-> df_to_values(subtables, df.rows, metrics, kind)]

\* The metric lists requested.
MetricLists ==
    { <<<<AppA, Name1>>>>, <<<<App1A, Name1>>>>,
      <<<<AppA, Name1>>, <<App1A, Name1>>>>, <<<<App1A, Name1>>, <<AppA, Name1>>>> }

ReadMetricsData(project, endpoint_id, metrics, type, reject) ==
    /\ LET r == read_metrics_data(td_super, td_subtables, td_rows, project, endpoint_id,
                                  metrics, type, reject)
           kind == IF type = "metrics" THEN METRIC ELSE RESULT
       IN  outcome' = [op |-> "read_metrics_data", exc |-> r.exc, out |-> r.out,
                       project |-> project, endpoint_id |-> endpoint_id,
                       metrics |-> metrics, type |-> type, subtables |-> td_subtables,
                       stored |-> {RowMetric(td_subtables, row, kind) :
                                     row \in {x \in td_rows :
                                        /\ td_subtables[x.subtable].super = td_super_table(kind)
                                        /\ td_subtables[x.subtable].tags["project"] = project
                                        /\ td_subtables[x.subtable].tags["endpoint_id"]
                                              = endpoint_id}}]
    /\ UNCHANGED <<mlconf, workers, sql_table, writerVars, storeVars, checkVars, td_super>>

\* The texts that denote a time.
Timestamps == IsoTimes \cup {"2023-09-19 16:30:00", "2023-09-19 16:40:00"}

\* pd.to_datetime of a str: the timestamp the text denotes, or the error of a
\* text that denotes none.
pd_to_datetime(text) ==
    IF text \in Timestamps THEN Return(<<"Timestamp", text>>) ELSE Raise("ValueError")

\* The window of the count query when the caller names none.
DefaultWindow == "10m"

\* The results of the windowed count query over the latency column: rows of
\* (_wend, count(latency)).
PredictionFrames ==
    { <<>>, <<[_wend |-> "2023-09-19 16:30:00", count |-> 3]>>,
      <<[_wend |-> "2023-09-19 16:30:00", count |-> 3],
        [_wend |-> "2023-09-19 16:40:00", count |-> 1]>> }

\* TDEngineConnector.read_predictions; df is the result of the count query.
read_predictions(super, subtables, rows, project, endpoint_id, aggregation_window, df, reject) ==
    LET interval == IF aggregation_window = "" THEN DefaultWindow ELSE aggregation_window
        r == get_records(super, subtables, rows, project, td_name("predictions"), "0", "now",
                         <<Atom("endpoint_id", endpoint_id)>>, reject)
    IN  IF r.exc # "" THEN [exc |-> r.exc, interval |-> interval, out |-> [type |-> ""]]
        ELSE IF df = <<>>
        THEN [exc |-> "", interval |-> interval, out |-> [type |-> "no_data"]]
        ELSE LET wend == pd_to_datetime("_wend")
             IN  IF wend.exc # ""
                 THEN [exc |-> wend.exc, interval |-> interval, out |-> [type |-> ""]]
                 ELSE [exc |-> "", interval |-> interval,
                       out |-> [type |-> "values",
                                values |-> [i \in DOMAIN df |->
                                              <<wend.value, df[i].count>>]]]

ReadPredictions(project, endpoint_id, aggregation_window, df, reject) ==
    /\ LET r == read_predictions(td_super, td_subtables, td_rows, project, endpoint_id,
                                 aggregation_window, df, reject)
       IN  outcome' = [op |-> "read_predictions", exc |-> r.exc, out |-> r.out,
                       interval |-> r.interval, aggregation_window |-> aggregation_window,
                       df |-> df, reject |-> reject, super |-> td_super]
    /\ UNCHANGED <<mlconf, workers, sql_table, writerVars, storeVars, checkVars, td_super>>

\* The truth value of what read_predictions returns: a value series and a
\* no-data object are objects of classes without __bool__ and __len__, which
\* are true; None is false.
predictions_truth(out) == out.type # "NoneType"

\* The invocations metric of a project.
InvocationsMetric(project) ==
    [type |-> "ModelEndpointMonitoringMetric", project |-> project,
     app |-> "mlrun-infra", name |-> "invocations"]

\* TDEngineConnector.read_prediction_metric_for_endpoint_if_exists
read_prediction_metric_for_endpoint_if_exists(super, subtables, rows, project, endpoint_id, df, reject) ==
    LET predictions == read_predictions(super, subtables, rows, project, endpoint_id, "",
                                        df, reject)
    IN  IF predictions.exc # "" THEN Raise(predictions.exc)
        ELSE IF predictions_truth(predictions.out)
        THEN Return(InvocationsMetric(project))
        ELSE Return(PyNone)

ReadPredictionMetricIfExists(project, endpoint_id, df, reject) ==
    /\ LET r == read_prediction_metric_for_endpoint_if_exists(
                    td_super, td_subtables, td_rows, project, endpoint_id, df, reject)
       IN  outcome' = [op |-> "read_prediction_metric_for_endpoint_if_exists",
                       exc |-> r.exc, value |-> r.value, project |-> project,
                       df |-> df, reject |-> reject, super |-> td_super]
    /\ UNCHANGED <<mlconf, workers, sql_table, writerVars, storeVars, checkVars, td_super>>

\* A database without supertables.
InitConn ==
    /\ mlconf = [tsdb_store_type |-> TDEngine, store_type |-> SQL]
    /\ workers = {}
    /\ InitWriters
    /\ InitStores
    /\ InitChecks
    /\ td_super = {}
    /\ outcome = NoOutcome
    /\ sql_table = NoTable

NextConn ==
    \/ \E fail_at \in 0..Len(SuperTables_ordered) : CreateTables(fail_at)
    \/ \E e \in ConnEvents : ConnWrite(e[1], e[2])
    \/ \E project \in Projects : DeleteTsdbResources(project)
    \/ \E table \in ConnTables, reject \in Diagnostics :
          ConnGetRecords(Project1, table, <<>>, reject)
    \/ \E endpoint_id \in {EndpointDash, EndpointShort}, metrics \in MetricLists,
          type \in {"results", "metrics", "predictions"} :
          ReadMetricsData(Project1, endpoint_id, metrics, type, "")
    \/ \E aggregation_window \in {"", "1h"}, df \in PredictionFrames, reject \in Diagnostics :
          ReadPredictions(Project1, EndpointDash, aggregation_window, df, reject)
    \/ \E df \in PredictionFrames, reject \in Diagnostics :
          ReadPredictionMetricIfExists(Project1, EndpointDash, df, reject)

SpecConn == InitConn /\ [][NextConn]_vars

----------------------------------------------------------------------------
(* _ModelEndpointSQLStore: the model endpoints table of one SQL database *)

\* The columns _get_table declares, in their order; endpoint_id is the primary
\* key.
Columns_ordered ==
    << "endpoint_id", "state", "project", "function_uri", "model", "model_class",
       "labels", "model_uri", "stream_path", "active", "monitoring_mode",
       "feature_stats", "current_stats", "feature_names", "children",
       "label_names", "timestamp", "endpoint_type", "children_uids",
       "drift_measures", "drift_status", "monitor_configuration",
       "feature_set_uri", "latency_avg_5m", "latency_avg_1h",
       "predictions_per_second", "predictions_count_5m", "predictions_count_1h",
       "first_request", "last_request", "error_count" >>

Columns == Range(Columns_ordered)

\* json.dumps of a str: the text between quotes, its quotes and backslashes
\* escaped.  A text is a sequence of characters.
RECURSIVE json_escape(_)
json_escape(text) ==
    IF text = <<>> THEN <<>>
    ELSE (IF Head(text) \in {"\"", "\\"} THEN <<"\\", Head(text)>> ELSE <<Head(text)>>)
         \o json_escape(Tail(text))

json_dumps_str(text) == <<"\"">> \o json_escape(text) \o <<"\"">>

\* json.dumps of a label map, a dict of str to str: its items in insertion
\* order, as a sequence of <<key, value>>.
RECURSIVE json_dumps_labels_from(_, _)
json_dumps_labels_from(labels, i) ==
    IF i > Len(labels) THEN <<>>
    ELSE (IF i > 1 THEN <<",", " ">> ELSE <<>>)
         \o json_dumps_str(labels[i][1]) \o <<":", " ">> \o json_dumps_str(labels[i][2])
         \o json_dumps_labels_from(labels, i + 1)

json_dumps_labels(labels) == <<"{">> \o json_dumps_labels_from(labels, 1) \o <<"}">>

\* The strings of a JSON text, in their order, unescaped.
RECURSIVE json_strings(_, _, _, _)
json_strings(text, i, inside, cur) ==
    IF i > Len(text) THEN <<>>
    ELSE IF ~inside
    THEN json_strings(text, i + 1, text[i] = "\"", <<>>)
    ELSE IF text[i] = "\\" /\ i < Len(text)
    THEN json_strings(text, i + 2, TRUE, Append(cur, text[i + 1]))
    ELSE IF text[i] = "\""
    THEN <<cur>> \o json_strings(text, i + 1, FALSE, <<>>)
    ELSE json_strings(text, i + 1, TRUE, Append(cur, text[i]))

\* json.loads of the JSON text of a label map.
json_loads_labels(text) ==
    LET strings == json_strings(text, 1, FALSE, <<>>)
    IN  [k \in 1..(Len(strings) \div 2) |-> <<strings[2 * k - 1], strings[2 * k]>>]

\* A ModelEndpoint object: the fields of its metadata, spec and status that
\* the store filters by.
ModelEndpoint(uid, project, function_uri, model, labels) ==
    [uid |-> uid, project |-> project, function_uri |-> function_uri,
     model |-> model, labels |-> labels, state |-> ""]

\* self.get_params(endpoint): the row of a model endpoint object, a value for
\* every column, the label map as JSON text.
get_params(endpoint) ==
    [c \in Columns |->
        CASE c = "endpoint_id" -> endpoint.uid
          [] c = "project" -> endpoint.project
          [] c = "function_uri" -> endpoint.function_uri
          [] c = "model" -> endpoint.model
          [] c = "labels" -> json_dumps_labels(endpoint.labels)
          [] c = "state" -> endpoint.state
          [] OTHER -> ""]

\* The ids that have a row in the table, and the rows of an id.
sql_ids(table) == {r["endpoint_id"] : r \in table.rows}

sql_rows_of(table, uid) == {r \in table.rows : r["endpoint_id"] = uid}

\* metadata.create_all(engine) when engine.has_table is false.
create_all(table) == IF table.exists THEN table ELSE [exists |-> TRUE, rows |-> {}]

\* write_model_endpoint appending the row whatever the table holds.
write_model_endpoint_append(table, row) ==
    [exc |-> "", table |-> [exists |-> TRUE, rows |-> table.rows \cup {row}]]

\* write_model_endpoint: the table is created when engine.has_table is false,
\* then the row is appended; the primary key refuses a second row of an id.
write_model_endpoint(table, row) ==
    LET created == create_all(table)
    IN  IF row["endpoint_id"] \in sql_ids(created)
        THEN [exc |-> "sqlalchemy.exc.IntegrityError", table |-> created]
        ELSE [exc |-> "", table |-> [created EXCEPT !.rows = @ \cup {row}]]

\* The row with the values of the attributes in their columns.
sql_set(row, attributes) ==
    [c \in Columns |-> IF c \in DOMAIN attributes THEN attributes[c] ELSE row[c]]

\* update_model_endpoint writing the attributes as a row of their own when no
\* row has the id.
update_model_endpoint_upsert(table, endpoint_id, attributes) ==
    IF ~table.exists THEN [exc |-> "sqlalchemy.exc.NoSuchTableError", table |-> table]
    ELSE LET old == IF endpoint_id \in sql_ids(table)
                    THEN CHOOSE r \in sql_rows_of(table, endpoint_id) : TRUE
                    ELSE get_params(ModelEndpoint(endpoint_id, "", "", "", <<>>))
         IN  [exc |-> "",
              table |-> [table EXCEPT !.rows = (@ \ sql_rows_of(table, endpoint_id))
                                                 \cup {sql_set(old, attributes)}]]

\* update_model_endpoint: UPDATE <table> SET <attributes> WHERE endpoint_id =
\* <endpoint_id>.  The table is loaded from the database first; an attribute
\* that is no column fails the statement; a statement that matches no row
\* changes nothing and raises nothing; the primary key refuses an id that
\* another row has.
update_model_endpoint(table, endpoint_id, attributes) ==
    IF ~table.exists THEN [exc |-> "sqlalchemy.exc.NoSuchTableError", table |-> table]
    ELSE IF ~(DOMAIN attributes \subseteq Columns)
    THEN [exc |-> "sqlalchemy.exc.CompileError", table |-> table]
    ELSE LET matched == sql_rows_of(table, endpoint_id)
             others == table.rows \ matched
             new == {sql_set(r, attributes) : r \in matched}
         IN  IF \E r \in new : r["endpoint_id"] \in {o["endpoint_id"] : o \in others}
             THEN [exc |-> "sqlalchemy.exc.IntegrityError", table |-> table]
             ELSE [exc |-> "", table |-> [table EXCEPT !.rows = others \cup new]]

\* delete_model_endpoint: DELETE FROM <table> WHERE endpoint_id = <endpoint_id>.
\* The table is loaded from the database first.
delete_model_endpoint(table, endpoint_id) ==
    IF ~table.exists THEN [exc |-> "sqlalchemy.exc.NoSuchTableError", table |-> table]
    ELSE [exc |-> "", table |-> [table EXCEPT !.rows = @ \ sql_rows_of(table, endpoint_id)]]

\* A row of the query result: the values of the row in the order of the
\* table's columns.
row_values(row) == [i \in DOMAIN Columns_ordered |-> row[Columns_ordered[i]]]

\* dict(zip(columns, values)): each column paired with the value at its place.
dict_zip(columns, values) ==
    [c \in Range(columns) |-> values[CHOOSE i \in DOMAIN columns : columns[i] = c]]

\* self._convert_into_model_endpoint_object(endpoint): the object with the
\* fields of the dictionary, the label map parsed from its JSON text.
convert_into_model_endpoint_object(endpoint) ==
    [uid |-> endpoint["endpoint_id"], project |-> endpoint["project"],
     function_uri |-> endpoint["function_uri"], model |-> endpoint["model"],
     labels |-> json_loads_labels(endpoint["labels"]), state |-> endpoint["state"]]

\* get_model_endpoint returning a row of the table whatever its id.
get_model_endpoint_any(table, endpoint_id) ==
    IF ~table.exists \/ table.rows = {} THEN Raise("MLRunNotFoundError")
    ELSE Return(convert_into_model_endpoint_object(
                   dict_zip(Columns_ordered, row_values(CHOOSE r \in table.rows : TRUE))))

\* get_model_endpoint: MLRunNotFoundError when the table does not exist or no
\* row has the id, otherwise the first row of the id as a dictionary of the
\* columns.
get_model_endpoint(table, endpoint_id) ==
    IF ~table.exists THEN Raise("MLRunNotFoundError")
    ELSE LET values == sql_rows_of(table, endpoint_id)
         IN  IF Cardinality(values) = 0 THEN Raise("MLRunNotFoundError")
             ELSE Return(convert_into_model_endpoint_object(
                            dict_zip(Columns_ordered,
                                     row_values(CHOOSE r \in values : TRUE))))

\* The endpoint ids, the label maps and the model endpoints written: endpoints
\* of the store's project, and endpoints another project's store writes to the
\* same database.
Uids == {"A", "B"}

NoLabels == <<>>
Labels1 == << <<(<<"a">>), (<<"1">>)>> >>

ModelEndpoints ==
    { ModelEndpoint("A", "p1", "f1", "m1", NoLabels),
      ModelEndpoint("A", "p1", "f1", "m1", Labels1),
      ModelEndpoint("B", "p1", "f1", "m2", NoLabels),
      ModelEndpoint("B", "p1", "f1", "m1", NoLabels),
      ModelEndpoint("B", "p2", "f2", "m1", NoLabels) }

\* The attribute maps of the updates: one column, two columns, the key column,
\* and a key that is no column.
AttributeMaps ==
    { [state |-> "ready"], [state |-> "error", model |-> "m3"],
      [endpoint_id |-> "B"], [no_such_column |-> "x"] }

WriteModelEndpoint(endpoint) ==
    /\ LET r == write_model_endpoint(sql_table, get_params(endpoint))
       IN  /\ sql_table' = r.table
           /\ outcome' = [op |-> "write_model_endpoint", exc |-> r.exc,
                          endpoint |-> endpoint, before |-> sql_table]
    /\ UNCHANGED <<mlconf, workers, writerVars, storeVars, checkVars, td_super>>

UpdateModelEndpoint(project, endpoint_id, attributes) ==
    /\ LET r == update_model_endpoint(sql_table, endpoint_id, attributes)
       IN  /\ sql_table' = r.table
           /\ outcome' = [op |-> "update_model_endpoint", exc |-> r.exc, project |-> project,
                          endpoint_id |-> endpoint_id, attributes |-> attributes,
                          before |-> sql_table]
    /\ UNCHANGED <<mlconf, workers, writerVars, storeVars, checkVars, td_super>>

DeleteModelEndpoint(project, endpoint_id) ==
    /\ LET r == delete_model_endpoint(sql_table, endpoint_id)
       IN  /\ sql_table' = r.table
           /\ outcome' = [op |-> "delete_model_endpoint", exc |-> r.exc, project |-> project,
                          endpoint_id |-> endpoint_id, before |-> sql_table]
    /\ UNCHANGED <<mlconf, workers, writerVars, storeVars, checkVars, td_super>>

GetModelEndpoint(project, endpoint_id) ==
    /\ LET r == get_model_endpoint(sql_table, endpoint_id)
       IN  outcome' = [op |-> "get_model_endpoint", exc |-> r.exc, project |-> project,
                       endpoint_id |-> endpoint_id, value |-> r.value,
                       before |-> sql_table]
    /\ UNCHANGED <<mlconf, workers, writerVars, storeVars, checkVars, td_super, sql_table>>

\* EventFieldType.MODEL, EventFieldType.FUNCTION and EventFieldType.ENDPOINT_ID:
\* the keys list_model_endpoints filters by.
MODEL == "model"
FUNCTION == "function"
ENDPOINT_ID == "endpoint_id"

\* Arguments of list_model_endpoints.  A str argument not given is "" here
\* (None and "" are both false); uids and labels keep their type.
NoUids == [type |-> "NoneType", items |-> <<>>]
UidList(items) == [type |-> "list", items |-> items]
NoLabelFilter == [type |-> "NoneType", text |-> <<>>]
LabelText(text) == [type |-> "str", text |-> text]
LabelDict(labels) == [type |-> "dict", text |-> labels]

\* bool(labels), bool(uids): None and an empty str, list or dict are false.
py_bool(arg) == arg.type # "NoneType" /\ (IF arg.type = "list" THEN arg.items ELSE arg.text) # <<>>

\* labels != text: a dict or a list is never equal to a str.
py_ne(labels, text) == IF labels.type = "str" THEN labels.text # text ELSE TRUE

\* _filter_values: one comparison column == value for each filtered value,
\* model_endpoints_table.c[key_filter] raising KeyError for a key that is no
\* column, the comparisons joined with AND when combined and with OR otherwise.
filter_values(rows, key_filter, filtered_values, combined) ==
    IF filtered_values # <<>> /\ key_filter \notin Columns THEN [exc |-> "KeyError", rows |-> {}]
    ELSE [exc |-> "",
          rows |-> {r \in rows :
                      IF combined
                      THEN \A i \in DOMAIN filtered_values : r[key_filter] = filtered_values[i]
                      ELSE \E i \in DOMAIN filtered_values : r[key_filter] = filtered_values[i]}]

\* The loop over query.all(): a row is skipped when a label filter is given and
\* differs from json.dumps of the value of the row's labels column.
list_filter_labels(rows, labels) ==
    {r \in rows : ~(py_bool(labels) /\ py_ne(labels, json_dumps_str(r["labels"])))}

\* list_model_endpoints of the store of a project: the table is loaded from
\* the database, the rows of the project are filtered by model, function and
\* uids when given, then by the labels, and converted to objects.
list_model_endpoints(table, project, model, function, labels, uids) ==
    IF ~table.exists THEN [exc |-> "sqlalchemy.exc.NoSuchTableError", endpoints |-> {}]
    ELSE LET q0 == [exc |-> "", rows |-> {r \in table.rows : r["project"] = project}]
             q1 == IF model # "" THEN filter_values(q0.rows, MODEL, <<model>>, TRUE) ELSE q0
             q2 == IF q1.exc # "" THEN q1
                   ELSE IF function # ""
                   THEN filter_values(q1.rows, FUNCTION, <<function>>, TRUE) ELSE q1
             q3 == IF q2.exc # "" THEN q2
                   ELSE IF py_bool(uids)
                   THEN filter_values(q2.rows, ENDPOINT_ID, uids.items, FALSE) ELSE q2
         IN  IF q3.exc # "" THEN [exc |-> q3.exc, endpoints |-> {}]
             ELSE [exc |-> "",
                   endpoints |-> {convert_into_model_endpoint_object(
                                     dict_zip(Columns_ordered, row_values(r))) :
                                  r \in list_filter_labels(q3.rows, labels)}]

\* The filters of the list calls: none, a model, a function, id lists (one
\* with an id that is not stored, an empty one), label filters (the JSON text of
\* a label map, that text dumped once more, a dict), and combinations.
ListFilters ==
    { [model |-> "", function |-> "", labels |-> NoLabelFilter, uids |-> NoUids],
      [model |-> "m1", function |-> "", labels |-> NoLabelFilter, uids |-> NoUids],
      [model |-> "", function |-> "f1", labels |-> NoLabelFilter, uids |-> NoUids],
      [model |-> "", function |-> "", labels |-> NoLabelFilter, uids |-> UidList(<<"A", "C">>)],
      [model |-> "", function |-> "", labels |-> NoLabelFilter, uids |-> UidList(<<"A", "B">>)],
      [model |-> "m1", function |-> "", labels |-> NoLabelFilter, uids |-> UidList(<<"A", "B">>)],
      [model |-> "", function |-> "", labels |-> NoLabelFilter, uids |-> UidList(<<>>)],
      [model |-> "", function |-> "", uids |-> NoUids,
       labels |-> LabelText(json_dumps_labels(Labels1))],
      [model |-> "", function |-> "", uids |-> NoUids,
       labels |-> LabelText(json_dumps_str(json_dumps_labels(Labels1)))],
      [model |-> "", function |-> "", uids |-> NoUids, labels |-> LabelDict(Labels1)] }

ListModelEndpoints(project, f) ==
    /\ LET r == list_model_endpoints(sql_table, project, f.model, f.function, f.labels, f.uids)
       IN  outcome' = [op |-> "list_model_endpoints", exc |-> r.exc, project |-> project,
                       filters |-> f, endpoints |-> r.endpoints, before |-> sql_table]
    /\ UNCHANGED <<mlconf, workers, writerVars, storeVars, checkVars, td_super, sql_table>>

\* delete_model_endpoints_resources from the i-th endpoint on: one
\* delete_model_endpoint call after the other, nothing caught; an id of
\* `failing` is one whose DELETE statement the database refuses.
RECURSIVE delete_resources_from(_, _, _, _, _)
delete_resources_from(table, uids, i, failing, attempted) ==
    IF i > Len(uids) THEN [exc |-> "", table |-> table, attempted |-> attempted]
    ELSE LET r == IF uids[i] \in failing /\ table.exists
                  THEN [exc |-> "sqlalchemy.exc.OperationalError", table |-> table]
                  ELSE delete_model_endpoint(table, uids[i])
         IN  IF r.exc # ""
             THEN [exc |-> r.exc, table |-> r.table, attempted |-> Append(attempted, uids[i])]
             ELSE delete_resources_from(r.table, uids, i + 1, failing,
                                        Append(attempted, uids[i]))

delete_model_endpoints_resources(table, uids, failing) ==
    delete_resources_from(table, uids, 1, failing, <<>>)

\* The id lists of the bulk deletes: one starts with an id that is never stored.
UidLists == {<<"A", "B">>, <<"C", "B">>, <<"B">>}

DeleteModelEndpointsResources(uids, failing) ==
    /\ LET r == delete_model_endpoints_resources(sql_table, uids, failing)
       IN  /\ sql_table' = r.table
           /\ outcome' = [op |-> "delete_model_endpoints_resources", exc |-> r.exc,
                          uids |-> uids, failing |-> failing, attempted |-> r.attempted,
                          before |-> sql_table]
    /\ UNCHANGED <<mlconf, workers, writerVars, storeVars, checkVars, td_super>>

\* The projects of the stores that work on the table: self.project of the
\* store an operation is called on.
StoreProjects == {"p1", "p2"}

InitSQL ==
    /\ mlconf = [tsdb_store_type |-> TDEngine, store_type |-> SQL]
    /\ workers = {}
    /\ InitWriters
    /\ InitStores
    /\ InitChecks
    /\ InitConnector

NextSQL ==
    \/ \E endpoint \in ModelEndpoints : WriteModelEndpoint(endpoint)
    \/ \E project \in StoreProjects, endpoint_id \in Uids, attributes \in AttributeMaps :
          UpdateModelEndpoint(project, endpoint_id, attributes)
    \/ \E project \in StoreProjects, endpoint_id \in Uids :
          DeleteModelEndpoint(project, endpoint_id)
    \/ \E project \in StoreProjects, endpoint_id \in Uids :
          GetModelEndpoint(project, endpoint_id)
    \/ \E project \in StoreProjects, f \in ListFilters : ListModelEndpoints(project, f)
    \/ \E uids \in UidLists, failing \in {{}, {"A"}} :
          DeleteModelEndpointsResources(uids, failing)

SpecSQL == InitSQL /\ [][NextSQL]_vars

----------------------------------------------------------------------------
(* get_store_object: the store variant a configuration resolves to *)

\* Connection strings, as sequences of characters: <<>> is no connection
\* string (None or ""), then a sqlite, a mysql and a v3io one.
NoConnection == <<>>
SqliteConnection == <<"s", "q", "l", "i", "t", "e", ":", "/", "/", "/", "d", "b">>
MysqlConnection == <<"m", "y", "s", "q", "l", "+", "p", "y", "m", "y", "s", "q", "l", ":", "/", "/", "h">>
V3ioConnection == <<"v", "3", "i", "o", ":", "/", "/", "/", "c">>

ConnectionStrings == {NoConnection, SqliteConnection, MysqlConnection, V3ioConnection}

\* str.startswith
startswith(text, prefix) ==
    Len(text) >= Len(prefix) /\ SubSeq(text, 1, Len(prefix)) = prefix

\* The members of the enum ObjectStoreFactory, in their order.
ObjectStoreFactory_members ==
    << [name |-> "v3io_nosql", value |-> V3IO_NOSQL], [name |-> "SQL", value |-> SQL] >>

\* list(cls.__members__.keys())
valid_values == [i \in DOMAIN ObjectStoreFactory_members |-> ObjectStoreFactory_members[i].name]

\* ObjectStoreFactory(value) returning the member SQL for a value that is no
\* member's value.
ObjectStoreFactory_default(value) ==
    IF \E i \in DOMAIN ObjectStoreFactory_members : ObjectStoreFactory_members[i].value = value
    THEN [exc |-> "", msg |-> <<>>, member |-> value]
    ELSE [exc |-> "", msg |-> <<>>, member |-> SQL]

\* ObjectStoreFactory(value): the member with that value; for any other value
\* _missing_ raises MLRunInvalidArgumentError with the value and the list of
\* member names in its message.
ObjectStoreFactory(value) ==
    IF \E i \in DOMAIN ObjectStoreFactory_members : ObjectStoreFactory_members[i].value = value
    THEN [exc |-> "", msg |-> <<>>, member |-> value]
    ELSE [exc |-> "MLRunInvalidArgumentError",
          msg |-> <<value, " is not a valid endpoint store, please choose a valid value: %",
                    valid_values, ".">>,
          member |-> ""]

\* to_object_store: KVStoreBase for the member v3io_nosql, SQLStoreBase with
\* the keyword arguments for any other member.
to_object_store(member, project, kwargs) ==
    IF member = V3IO_NOSQL THEN [class |-> "KVStoreBase", project |-> project, kwargs |-> EmptyMap]
    ELSE [class |-> "SQLStoreBase", project |-> project, kwargs |-> kwargs]

\* helpers.get_connection_string: the project secret or environment value,
\* or else the configured endpoint_store_connection.
get_connection_string(conf, secret) ==
    IF secret # NoConnection THEN secret ELSE conf.endpoint_store_connection

\* No store object.
NoStore == [class |-> "", project |-> "", kwargs |-> EmptyMap]

\* get_store_object: a connection string that starts with "sql" sets the
\* store type to SQL and is passed on; the store type given, or else the
\* configured one, is looked up in ObjectStoreFactory and converted into the
\* store object.  A store_type not given (None) is "".
get_store_object(conf, project, store_type, secret) ==
    LET store_connection_string == get_connection_string(conf, secret)
        is_sql == store_connection_string # NoConnection
                    /\ startswith(store_connection_string, <<"s", "q", "l">>)
        kwargs == IF is_sql THEN [store_connection_string |-> store_connection_string]
                  ELSE EmptyMap
        given == IF is_sql THEN SQL ELSE store_type
        resolved == IF given # "" THEN given ELSE conf.store_type
        factory == ObjectStoreFactory(resolved)
    IN  [exc |-> factory.exc, msg |-> factory.msg, resolved |-> resolved,
         connection_string |-> store_connection_string,
         store |-> IF factory.exc # "" THEN NoStore
                   ELSE to_object_store(factory.member, project, kwargs)]

\* The store_type arguments: not given, the two declared values, a member
\* name that is no value, and another text.
StoreTypes == {"", V3IO_NOSQL, SQL, "v3io_nosql", "kv"}

\* The configurations of the factory: the default store type may itself be a
\* value that is not declared.
FactoryConfigurations ==
    [tsdb_store_type : {V3IO_TSDB}, store_type : {V3IO_NOSQL, SQL, "nosql"},
     endpoint_store_connection : ConnectionStrings]

GetStoreObject(project, store_type, secret) ==
    /\ LET r == get_store_object(mlconf, project, store_type, secret)
       IN  outcome' = [op |-> "get_store_object", exc |-> r.exc, msg |-> r.msg,
                       store_type |-> store_type, resolved |-> r.resolved,
                       connection_string |-> r.connection_string, store |-> r.store]
    /\ UNCHANGED <<mlconf, workers, writerVars, storeVars, checkVars, td_super, sql_table>>

InitFactory ==
    /\ mlconf \in FactoryConfigurations
    /\ workers = {}
    /\ InitWriters
    /\ InitStores
    /\ InitChecks
    /\ InitConnector

NextFactory ==
    \E project \in {"p1"}, store_type \in StoreTypes, secret \in ConnectionStrings :
       GetStoreObject(project, store_type, secret)

SpecFactory == InitFactory /\ [][NextFactory]_vars

----------------------------------------------------------------------------
(* Properties of the writer pipeline *)

Before(l, a, i) == \E j \in DOMAIN l : j < i /\ l[j] = a

Count(l, a) == Cardinality({i \in DOMAIN l : l[i] = a})

\* The record has every declared field.
Complete_(r) == r.type = "dict" /\ Declared \subseteq DOMAIN r.items

\* _reconstruct_event has run on the writer's current record.
Normalization(w) == pc[w] # "idle" /\ StateOf(w) # "Received"

\* C1: for every event the time-series append is issued and has returned
\* before the metadata update is issued, and the metadata update with its
\* schema registration has returned before the notifier runs; no metadata
\* update or notification happens without a preceding append.
C1_SideEffectsOrdered ==
    \A w \in Writers :
      \A i \in DOMAIN log[w] :
        /\ log[w][i] \in {"kv_issue", "schema_issue", "notify", "push"}
             => \E j, k \in DOMAIN log[w] :
                  j < k /\ k < i /\ log[w][j] = "ts_issue" /\ log[w][k] = "ts_return"
        /\ log[w][i] \in {"notify", "push"}
             => /\ \E j, k \in DOMAIN log[w] :
                     j < k /\ k < i /\ log[w][j] = "kv_issue" /\ log[w][k] = "kv_return"
                /\ \A j \in DOMAIN log[w] :
                     (j < i /\ log[w][j] = "schema_issue")
                        => \E k \in DOMAIN log[w] :
                             j < k /\ k < i /\ log[w][k] = "schema_return"

C1_Witness ==
    \E w \in Writers :
      /\ pc[w] = "Done"
      /\ log[w] = <<"ts_issue", "ts_return", "kv_issue", "kv_return",
                    "schema_issue", "schema_return", "notify", "push">>

\* C2: when the time-series backend rejects the append of an event, do()
\* raises, and no metadata update and no notification is made for the event,
\* and the append is not issued again.
C2_RejectedAppendIsTerminal ==
    \A w \in Writers :
      Before(log[w], "ts_reject", Len(log[w]) + 1)
        => /\ pc[w] = "Failed"
           /\ error[w] # ""
           /\ Count(log[w], "ts_issue") = 1
           /\ Range(log[w]) \cap {"kv_issue", "schema_issue", "notify", "push"} = {}

\* C3: an event becomes Rejected only from Received, and then nothing has
\* been written or notified for it.
C3_RejectedOnlyFromReceived ==
    /\ [][\A w \in Writers :
            (pc'[w] = "Rejected" /\ pc[w] # "Rejected") => StateOf(w) = "Received"]_vars
    /\ [](\A w \in Writers : pc[w] = "Rejected" => log[w] = <<>>)

C3_Witness ==
    \E w \in Writers :
      /\ pc[w] = "Rejected"
      /\ hist[w].accepted = 2
      /\ frames_writes # <<>>

\* C4: notify() makes one push, of severity warning, for an event of status
\* >= detected and none for a lower status; the pushes of a writer are as many
\* as the events of status >= detected that reached the notifier.
C4_PushIffDetected ==
    \A w \in Writers :
      /\ Len(pushes[w]) =
            Cardinality({i \in DOMAIN hist[w].notified : hist[w].notified[i] >= 2})
      /\ \A i \in DOMAIN pushes[w] : pushes[w][i].severity = "warning"
      /\ Before(log[w], "notify", Len(log[w]) + 1)
           => Count(log[w], "push") = IF event[w].items["result_status"] >= 2 THEN 1 ELSE 0

C4_Witness ==
    \E w \in Writers :
      /\ hist[w].notified = <<2, 1>>
      /\ Len(pushes[w]) = 1

\* C5 as claimed: create_schema is attempted at most once per endpoint id.
C5_AtMostOneAttempt ==
    \A w \in Writers, ep \in Endpoints :
      Cardinality({i \in DOMAIN hist[w].schema_calls :
                      hist[w].schema_calls[i].endpoint_id = ep}) <= 1

\* C5 as amended: create_schema is attempted only for an endpoint id that is not
\* in the seen list, and only while no earlier attempt for that id succeeded;
\* the seen list holds the ids whose registration succeeded.
C5_AttemptOnlyWhileUnseen ==
    \A w \in Writers :
      LET calls == hist[w].schema_calls
      IN  /\ \A i \in DOMAIN calls :
               /\ ~calls[i].seen
               /\ \A j \in DOMAIN calls :
                    (j < i /\ calls[j].endpoint_id = calls[i].endpoint_id)
                       => calls[j].status_code # 200
          /\ Range(kv_schemas[w]) =
               {calls[i].endpoint_id : i \in {j \in DOMAIN calls : calls[j].status_code = 200}}

C5_Witness ==
    \E w \in Writers :
      LET calls == hist[w].schema_calls
      IN  /\ Len(calls) = 2
          /\ calls[1].endpoint_id = calls[2].endpoint_id
          /\ calls[1].status_code = 500
          /\ calls[2].status_code = 200

\* C6: _reconstruct_event raises _WriterEventTypeError for a record that is no
\* key/value record and _WriterEventValueError for a key/value record that
\* lacks a declared field, and produces no event in either case.
C6_MalformedAndIncomplete ==
    \A w \in Writers :
      Normalization(w) =>
        /\ raw[w].type # "dict"
             => pc[w] = "Rejected" /\ error[w] = "_WriterEventTypeError"
                  /\ event[w] = raw[w]
        /\ (raw[w].type = "dict" /\ ~Complete_(raw[w]))
             => pc[w] = "Rejected" /\ error[w] = "_WriterEventValueError"
                  /\ event[w] = raw[w]

C6_Witness ==
    \E w \in Writers :
      /\ pc[w] = "Rejected"
      /\ raw[w].type = "dict"
      /\ DOMAIN raw[w].items = {"endpoint_id"}
      /\ error[w] = "_WriterEventValueError"

\* The parsed form of a JSON text of the model.
ParsedStats(text) ==
    CASE text = "{}" -> "dict()"
      [] text = "{ }" -> "dict()"
      [] text = "{\"hist\": 1}" -> "dict(hist=1)"

\* C7: for a record with every declared field and JSON text as current stats,
\* _reconstruct_event returns an event with exactly the declared keys, the
\* parsed current stats and every other field as in the record; the record is
\* left unchanged.
C7_ReconstructWellFormed ==
    /\ [](\A w \in Writers :
            (Normalization(w) /\ Complete_(raw[w])
                /\ raw[w].items["current_stats"] \in {"{}", "{ }", "{\"hist\": 1}"})
              => /\ pc[w] # "Rejected"
                 /\ StateOf(w) = "Normalized" /\ pc[w] = "do"
                      => /\ event[w].type = "dict"
                         /\ DOMAIN event[w].items = Declared
                         /\ event[w].items["current_stats"] =
                               ParsedStats(raw[w].items["current_stats"])
                         /\ \A k \in Declared \ {"current_stats"} :
                               event[w].items[k] = raw[w].items[k])
    /\ [][\A w \in Writers : Step(w) = "_reconstruct_event" => raw'[w] = raw[w]]_vars

C7_Witness ==
    \E w \in Writers :
      /\ StateOf(w) = "Normalized"
      /\ "extra_key" \in DOMAIN raw[w].items
      /\ DOMAIN event[w].items = Declared

\* C8: with every declared field present and current stats that cannot be
\* parsed, normalization raises one of the writer's event errors, the event is
\* Rejected and nothing is written or notified for it.
C8_UnparsableStatsRejected ==
    \A w \in Writers :
      (Normalization(w) /\ Complete_(raw[w])
          /\ raw[w].items["current_stats"] \notin {"{}", "{ }", "{\"hist\": 1}"})
        => /\ pc[w] = "Rejected"
           /\ error[w] \in {"_WriterEventValueError", "_WriterEventTypeError"}
           /\ log[w] = <<>>

\* The subtable of the writer's current event and the row the insert
\* statement stores for it.
EventSubtable(w) ==
    td_table_name(WriterProject(w), event[w].items["endpoint_id"],
                  event[w].items["application_name"], event[w].items["result_name"])

EventRow(w) == [subtable |-> EventSubtable(w),
                cols |-> Restrict(event[w].items, td_columns(RESULT))]

\* C11: in the TDEngine append the create-subtable statement is executed
\* before the insert statement of the same event; every stored row lies in an
\* existing subtable, also after a crash between the two statements; and an
\* append that returns, the re-append after such a crash included, leaves the
\* event's row in the event's subtable.
C11_CreateBeforeInsert ==
    /\ \A r \in td_rows : r.subtable \in DOMAIN td_subtables
    /\ \A w \in Writers :
         /\ \A i \in DOMAIN log[w] :
              log[w][i] = "td_insert" => Before(log[w], "td_create", i)
         /\ (get_tsdb_store(mlconf) = TDEngine /\ Before(log[w], "ts_return", Len(log[w]) + 1))
              => /\ Before(log[w], "td_insert", Len(log[w]) + 1)
                 /\ EventRow(w) \in td_rows
         /\ pc[w] = "td_insert" => EventSubtable(w) \in DOMAIN td_subtables

\* The event whose append crashed between the statements has been appended
\* again and its row is stored.
C11_Witness ==
    \E w \in Writers :
      /\ hist[w].crashed # <<>>
      /\ raw[w] = hist[w].crashed[1]
      /\ Before(log[w], "ts_return", Len(log[w]) + 1)
      /\ EventRow(w) \in td_rows
      /\ Cardinality(DOMAIN td_subtables) = 1

\* C15: every write to the frames client carries one row, without the
\* extra-data field, indexed by (end-infer time, endpoint id, application name,
\* result name); an event causes at most one write, and the write made for an
\* event carries that event's fields.
C15_OneRowWithoutExtraData ==
    /\ [](\A i \in DOMAIN frames_writes :
            LET write == frames_writes[i]
            IN  /\ Len(write.dfs) = 1
                /\ "result_extra_data" \notin DOMAIN write.dfs[1]
                /\ write.index_cols = <<"end_infer_time", "endpoint_id",
                                        "application_name", "result_name">>
                /\ Range(write.index_cols) \subseteq DOMAIN write.dfs[1])
    /\ [](\A w \in Writers : Count(log[w], "ts_issue") <= 1)
    /\ [][\/ frames_writes' = frames_writes
          \/ \E w \in Writers :
               /\ Step(w) = "_update_tsdb"
               /\ get_tsdb_store(mlconf) = V3IO_TSDB
               /\ Len(frames_writes') = Len(frames_writes) + 1
               /\ SubSeq(frames_writes', 1, Len(frames_writes)) = frames_writes
               /\ LET row == frames_writes'[Len(frames_writes')].dfs[1]
                  IN  /\ DOMAIN row = DOMAIN event[w].items \ {"result_extra_data"}
                      /\ \A k \in DOMAIN row \ {"end_infer_time"} :
                            row[k] = event[w].items[k]]_vars

\* Two events carrying extra data have been written to the time series.
C15_Witness ==
    /\ Len(frames_writes) = 2
    /\ \E w \in Writers :
         /\ pc[w] = "Done"
         /\ "result_extra_data" \in DOMAIN event[w].items
         /\ "result_extra_data" \notin DOMAIN frames_writes[2].dfs[1]

----------------------------------------------------------------------------
(* Properties of the TDEngine connector *)

\* C9: the subtable name is a function of (project, endpoint id, application
\* name, metric/result name), and two distinct tuples never yield the same
\* name.
C9_SubtableNamesInjective ==
    \A x, y \in names :
      x.subtable = y.subtable
        => <<x.project, x.endpoint_id, x.app, x.name>>
              = <<y.project, y.endpoint_id, y.app, y.name>>

\* C10: every row get_records returns belongs to the connector's project,
\* whatever the caller's filter.
C10_RowsOfOwnProject ==
    \A r \in td_result.rows :
      td_subtables[r.subtable].tags["project"] = td_result.project

----------------------------------------------------------------------------
(* Properties of the operations of the TDEngine connector *)

\* C12: read_metrics_data returns one outcome per requested metric: a value
\* series for every requested (application name, name) the endpoint has rows
\* for, and no-data for every requested one it has no rows for.
C12_OneOutcomePerMetric ==
    (outcome.op = "read_metrics_data" /\ outcome.exc = "")
      => /\ Cardinality(outcome.out) = Len(outcome.metrics)
         /\ \A m \in Range(outcome.metrics) :
              \E o \in outcome.out :
                /\ o.metric = m
                /\ o.type = IF m \in outcome.stored THEN "values" ELSE "no_data"

\* C13: a create_tables call that the backend does not reject for a reason of
\* its own completes without error, whatever supertables exist already, and
\* leaves the three supertables in place; a rejection for another reason is
\* raised.
C13_CreateTablesRepeatable ==
    outcome.op = "create_tables"
      => /\ outcome.super \subseteq td_super
         /\ outcome.fail_at = 0 => (outcome.exc = "" /\ td_super = SuperTables)
         /\ outcome.fail_at # 0 => outcome.exc # ""

\* C14: delete_tsdb_resources of a database with its three supertables
\* attempts the drop of every subtable of the project, also after a drop the
\* backend rejects, and raises nothing.
C14_DropsEverySubtable ==
    (outcome.op = "delete_tsdb_resources" /\ outcome.super = SuperTables)
      => /\ outcome.exc = ""
         /\ outcome.attempted = outcome.targets
         /\ outcome.remaining = outcome.failing

\* C16 as claimed: get_records raises the invalid-argument error, and returns
\* no result, for every table argument that is none of the three supertables.
C16_OnlyLogicalTables ==
    (outcome.op = "get_records" /\ outcome.table \notin {td_name(t) : t \in SuperTables})
      => outcome.exc = "MLRunInvalidArgumentError" /\ outcome.rows = {}

\* C16 as amended: get_records raises the invalid-argument error, and returns
\* no result, for every table argument that names neither a supertable nor a
\* subtable of the database; for the name of a subtable it returns rows of
\* that subtable and of the connector's project unless the backend rejects
\* the query.
C16_UnknownTableRejected ==
    outcome.op = "get_records"
      => /\ outcome.table \notin outcome.known
              => outcome.exc = "MLRunInvalidArgumentError" /\ outcome.rows = {}
         /\ (outcome.table \in outcome.known /\ outcome.reject = "")
              => /\ outcome.exc = ""
                 /\ outcome.table \notin {td_name(t) : t \in SuperTables}
                      => \A r \in outcome.rows : r.subtable = outcome.table

\* A get_records call on a table that does not exist, in a database that has
\* tables, has raised.
C16_Witness ==
    /\ outcome.op = "get_records"
    /\ outcome.table = td_name("no_such_table")
    /\ outcome.known # {}
    /\ outcome.exc = "MLRunInvalidArgumentError"

\* C17: when the backend rejects the query, get_records raises an error that
\* is not the invalid-argument error of a bad table name and whose message
\* holds the backend's diagnostic; it returns no result.
C17_QueryFailureDistinct ==
    (outcome.op = "get_records" /\ outcome.reject # "")
      => /\ outcome.exc # ""
         /\ outcome.exc # "MLRunInvalidArgumentError"
         /\ outcome.reject \in Range(outcome.msg)
         /\ outcome.rows = {}

\* C18: read_predictions returns no-data exactly when the count query returns
\* no rows, and otherwise a value series with one (window end, count) pair per
\* row; the query uses a 10-minute window when the caller names none.
C18_InvocationCounts ==
    (outcome.op = "read_predictions" /\ outcome.reject = ""
        /\ "predictions" \in outcome.super)
      => /\ outcome.exc = ""
         /\ outcome.aggregation_window = "" => outcome.interval = "10m"
         /\ outcome.df = <<>> <=> outcome.out.type = "no_data"
         /\ outcome.df # <<>>
              => /\ outcome.out.type = "values"
                 /\ Len(outcome.out.values) = Len(outcome.df)
                 /\ \A i \in DOMAIN outcome.df :
                      outcome.out.values[i][2] = outcome.df[i].count

----------------------------------------------------------------------------
(* Properties of the SQL model endpoint store *)

\* C19: update_model_endpoint for an id without a row in the table fails with
\* the not-found error.
C19_UpdateAbsentNotFound ==
    (outcome.op = "update_model_endpoint" /\ outcome.before.exists
        /\ outcome.endpoint_id \notin sql_ids(outcome.before))
      => outcome.exc = "MLRunNotFoundError"

\* The rows of the table other than the rows of an id are the same in both.
OthersUnchanged(before, after, uid) ==
    after.rows \ sql_rows_of(after, uid) = before.rows \ sql_rows_of(before, uid)

\* The row of the id after the update: the new values of the named attributes
\* and the old values of every other attribute.
RowUpdated(before, after, uid, attributes) ==
    /\ Cardinality(sql_rows_of(after, uid)) = 1
    /\ \A old \in sql_rows_of(before, uid), new \in sql_rows_of(after, uid) :
         \A c \in Columns :
           new[c] = IF c \in DOMAIN attributes THEN attributes[c] ELSE old[c]

\* C20 as claimed: after update(id, attributes) the stored ids are the same,
\* the other rows are unchanged and the row of id has the new values of the
\* named attributes and the old values of every other attribute; with id
\* absent, or when the update raises, the table is unchanged.
C20_PartialUpdate ==
    outcome.op = "update_model_endpoint"
      => LET before == outcome.before
             uid == outcome.endpoint_id
         IN  /\ sql_ids(sql_table) = sql_ids(before)
             /\ OthersUnchanged(before, sql_table, uid)
             /\ (uid \notin sql_ids(before) \/ outcome.exc # "") => sql_table = before
             /\ (uid \in sql_ids(before) /\ outcome.exc = "")
                  => RowUpdated(before, sql_table, uid, outcome.attributes)

\* C20 as amended: the same for attributes that do not name the endpoint_id
\* column.
C20_PartialUpdateOfAttributes ==
    (outcome.op = "update_model_endpoint"
        /\ "endpoint_id" \notin DOMAIN outcome.attributes)
      => LET before == outcome.before
             uid == outcome.endpoint_id
         IN  /\ sql_ids(sql_table) = sql_ids(before)
             /\ OthersUnchanged(before, sql_table, uid)
             /\ (uid \notin sql_ids(before) \/ outcome.exc # "") => sql_table = before
             /\ (uid \in sql_ids(before) /\ outcome.exc = "")
                  => RowUpdated(before, sql_table, uid, outcome.attributes)

\* Two attributes of one of two stored rows have been updated.
C20_Witness ==
    /\ outcome.op = "update_model_endpoint"
    /\ outcome.exc = ""
    /\ DOMAIN outcome.attributes = {"state", "model"}
    /\ sql_ids(outcome.before) = {"A", "B"}
    /\ sql_table # outcome.before

\* C21: write_model_endpoint of an id that has a row in the table fails with
\* the primary-key violation (the relational store's AlreadyExists) and leaves
\* the table as it was; the table never holds two rows of one id.
C21_DuplicateCreateRejected ==
    /\ (outcome.op = "write_model_endpoint"
          /\ outcome.endpoint.uid \in sql_ids(outcome.before))
         => (outcome.exc = "sqlalchemy.exc.IntegrityError" /\ sql_table = outcome.before)
    /\ \A uid \in sql_ids(sql_table) : Cardinality(sql_rows_of(sql_table, uid)) = 1

\* A write of an endpoint whose id is stored with other values, while another
\* id is stored too, has been refused.
C21_Witness ==
    /\ outcome.op = "write_model_endpoint"
    /\ outcome.exc # ""
    /\ sql_ids(outcome.before) = {"A", "B"}
    /\ get_params(outcome.endpoint) \notin outcome.before.rows

C23_DeleteIdempotent ==
    outcome.op = "delete_model_endpoint"
      => /\ outcome.exc = ""
         /\ get_model_endpoint(sql_table, outcome.endpoint_id).exc = "MLRunNotFoundError"
         /\ OthersUnchanged(outcome.before, sql_table, outcome.endpoint_id)

\* The rows list_model_endpoints is to return: the rows of the project that
\* have the model and the function when given and, when an id list is given,
\* an id of the list.
ListExpected(table, project, f) ==
    {r \in table.rows :
        /\ r["project"] = project
        /\ f.model # "" => r["model"] = f.model
        /\ f.function # "" => r["function_uri"] = f.function
        /\ f.uids.type = "list" => r["endpoint_id"] \in Range(f.uids.items)}

\* C24: list_model_endpoints without a label filter returns, without error,
\* exactly the records of the store's project that satisfy the model and
\* function filters given and, when an id list is given, whose id is in the
\* list; ids of the list that are not stored add nothing.
C24_ListFilters ==
    (outcome.op = "list_model_endpoints" /\ outcome.filters.labels = NoLabelFilter)
      => /\ outcome.exc = ""
         /\ outcome.endpoints =
              {convert_into_model_endpoint_object(r) :
                 r \in ListExpected(outcome.before, outcome.project, outcome.filters)}

\* C27: list_model_endpoints with a label filter, a str, and no other filter
\* returns exactly the records of the project whose stored labels text is
\* equal to the filter.
C27_LabelFilterIsTextEquality ==
    (outcome.op = "list_model_endpoints" /\ outcome.exc = ""
        /\ outcome.filters.labels.type = "str")
      => outcome.endpoints =
           {convert_into_model_endpoint_object(r) :
              r \in {x \in ListExpected(outcome.before, outcome.project, outcome.filters) :
                       x["labels"] = outcome.filters.labels.text}}

\* C25: delete_model_endpoints_resources calls the delete of every listed id,
\* whether or not an earlier id is missing or its delete fails; afterwards
\* every listed id whose delete did not fail has no row and the rows of ids
\* not listed are unchanged.
C25_EveryDeleteAttempted ==
    (outcome.op = "delete_model_endpoints_resources" /\ outcome.before.exists)
      => /\ outcome.attempted = outcome.uids
         /\ \A uid \in Range(outcome.uids) \ outcome.failing : uid \notin sql_ids(sql_table)
         /\ \A r \in outcome.before.rows :
              r["endpoint_id"] \notin Range(outcome.uids) => r \in sql_table.rows

\* C26: update_model_endpoint with an attribute key that is no column of the
\* table fails with MLRunInvalidArgumentError and leaves the table as it was.
C26_UnknownAttributeRejected ==
    (outcome.op = "update_model_endpoint"
        /\ ~(DOMAIN outcome.attributes \subseteq Columns))
      => /\ outcome.exc = "MLRunInvalidArgumentError"
         /\ sql_table = outcome.before

----------------------------------------------------------------------------
(* Properties of the store factory *)

\* The schemes of the relational databases the SQL store connects to.
RelationalSchemes == {<<"s", "q", "l", "i", "t", "e">>, <<"m", "y", "s", "q", "l">>}

IsRelational(connection_string) ==
    \E scheme \in RelationalSchemes : startswith(connection_string, scheme)

\* C28: get_store_object returns the SQL store whenever the connection string
\* begins with the scheme of a relational database, whatever store_type is;
\* otherwise it returns the variant store_type names, or the variant the
\* configured store type names when store_type is not given.
C28_ConnectionStringSelectsSQL ==
    outcome.op = "get_store_object"
      => /\ IsRelational(outcome.connection_string)
              => (outcome.exc = "" /\ outcome.store.class = "SQLStoreBase")
         /\ (~IsRelational(outcome.connection_string) /\ outcome.exc = "")
              => outcome.store.class =
                   (IF (IF outcome.store_type # "" THEN outcome.store_type
                        ELSE mlconf.store_type) = V3IO_NOSQL
                    THEN "KVStoreBase" ELSE "SQLStoreBase")

----------------------------------------------------------------------------
(* Properties of two writers side by side *)

\* The state that belongs to one writer instance.
Private(w) ==
    <<wstate[w], attrs[w], kv_schemas[w], pc[w], ip[w], event[w], log[w], pushes[w], hist[w]>>

\* The endpoint ids whose schema the writer itself registered before the
\* event it is processing.
OwnRegistered(w) ==
    LET calls == hist[w].schema_calls
        prior == IF "schema_issue" \in Range(log[w])
                 THEN SubSeq(calls, 1, Len(calls) - 1) ELSE calls
    IN  {prior[i].endpoint_id : i \in {j \in DOMAIN prior : prior[j].status_code = HTTP_OK}}

\* What a writer has produced follows from its own events alone: the schema is
\* registered for an event exactly when the writer itself has not registered
\* the endpoint before, the seen list holds the endpoints the writer itself
\* registered, and the pushes are those of the writer's own detections.
OwnEffects(w) ==
    /\ "kv_return" \in Range(log[w])
         => (("schema_issue" \in Range(log[w]))
               <=> (mlconf.store_type = V3IO_NOSQL
                      /\ event[w].items["endpoint_id"] \notin OwnRegistered(w)))
    /\ Range(kv_schemas[w]) =
         {hist[w].schema_calls[i].endpoint_id :
            i \in {j \in DOMAIN hist[w].schema_calls :
                     hist[w].schema_calls[j].status_code = HTTP_OK}}
    /\ Len(pushes[w]) =
         Cardinality({i \in DOMAIN hist[w].notified : hist[w].notified[i] >= detected})

\* A step changes the state of one writer at most; a seen list changes only by
\* the registration of the endpoint of its own writer's event; a write to the
\* frames store is the row of the event of the writer that makes it.
OwnSteps ==
    /\ \A w1, w2 \in Writers :
         w1 # w2 => (Private(w1)' = Private(w1) \/ Private(w2)' = Private(w2))
    /\ \A w \in Writers :
         kv_schemas'[w] # kv_schemas[w]
           => /\ Step(w) = "_update_kv_db"
              /\ kv_schemas'[w] = Append(kv_schemas[w], event[w].items["endpoint_id"])
    /\ frames_writes' # frames_writes
         => \E w \in workers :
              /\ Step(w) = "_update_tsdb"
              /\ Private(w)' # Private(w)
              /\ frames_writes' = Append(frames_writes,
                                         [dfs |-> v3io_dfs(v3io_row(event[w]).value),
                                          index_cols |-> v3io_index_cols])

\* C30: two writers that process events side by side, their steps interleaved
\* in any order, share no state: the seen list of each is read and changed
\* only by its own events, and the writes, schema registrations and pushes of
\* each are those it makes when it runs alone.
C30_NoSharedState == [](\A w \in workers : OwnEffects(w)) /\ [][OwnSteps]_vars

\* Both writers have completed an event of the same endpoint, and each has
\* registered the schema of that endpoint.
C30_Witness ==
    /\ workers = Writers
    /\ \A w \in Writers :
         /\ pc[w] = "Done"
         /\ Endpoint1 \in Range(kv_schemas[w])
         /\ Len(pushes[w]) > 0

----------------------------------------------------------------------------
(* Properties of the two stores of the writer taken together *)

\* The value of a field in the text json.dumps stored.
DumpedField(text, k) == text[CHOOSE i \in DOMAIN text : text[i][1] = k][2]

\* The time series holds a row of the event a stored per-metric value was
\* dumped from: a row of the frames table, or a row of the TDEngine subtable of
\* the triple, with the value and status of the event.
InTimeSeries(endpoint_id, app_name, metric_name, text) ==
    \/ \E i \in DOMAIN frames_writes :
         LET row == frames_writes[i].dfs[1]
         IN  /\ row["endpoint_id"] = endpoint_id
             /\ row["application_name"] = app_name
             /\ row["result_name"] = metric_name
             /\ row["result_status"] = DumpedField(text, "result_status")
             /\ row["result_value"] = DumpedField(text, "result_value")
    \/ \E r \in td_rows :
         /\ r.subtable = td_table_name(Project1, endpoint_id, app_name, metric_name)
         /\ r.cols["result_status"] = DumpedField(text, "result_status")
         /\ r.cols["result_value"] = DumpedField(text, "result_value")

\* C31: in every reachable state, after a backend failure or a crash included,
\* every per-metric value in the metadata store is the value of an event whose
\* row the time series holds.
C31_MetadataWithinTimeSeries ==
    \A key \in DOMAIN kv : \A m \in DOMAIN kv[key] :
       InTimeSeries(key[1], key[2], m, kv[key][m])

\* C32: a well-formed event of status >= detected whose time-series append
\* and metadata-store update both succeeded has made exactly one notification
\* push when do() has ended, also when the schema registration for its
\* endpoint id failed.
C32_OnePushAfterBothWrites ==
    \A w \in Writers :
      ( /\ pc[w] \in {"Done", "Failed"}
        /\ Before(log[w], "ts_return", Len(log[w]) + 1)
        /\ "ts_reject" \notin Range(log[w])
        /\ Before(log[w], "kv_return", Len(log[w]) + 1)
        /\ event[w].items["result_status"] >= detected )
      => Count(log[w], "push") = 1

\* C33: every row folded into the result of read_metrics_data has the
\* requested endpoint id and one of the requested (application, name) pairs,
\* for one requested metric and for two or more.
C33_RowsOfRequestedMetrics ==
    (outcome.op = "read_metrics_data" /\ outcome.exc = "")
      => \A o \in outcome.out : \A r \in o.values :
           LET tags == outcome.subtables[r.subtable].tags
               kind == IF outcome.type = "metrics" THEN METRIC ELSE RESULT
           IN  /\ tags["endpoint_id"] = outcome.endpoint_id
               /\ <<tags["application_name"], tags[name_key(kind)]>>
                     \in Range(outcome.metrics)

\* The attributes of the metadata store, as (endpoint id, application name,
\* result name) triples.
KvTriples(store) == UNION {{<<key[1], key[2], m>> : m \in DOMAIN store[key]} : key \in DOMAIN store}

KvValue(store, t) == store[<<t[1], t[2]>>][t[3]]

\* The step in which writer w's metadata update returns.
KvUpdated(w) == Count(log'[w], "kv_return") > Count(log[w], "kv_return")

\* C34: the metadata update of an event sets the attribute addressed by the
\* event's (endpoint id, application name, result name) to the serialized
\* remaining fields of the event and changes the attribute of no other triple;
\* no other step changes the store. The attribute of a triple therefore holds
\* the fields of the most recent event stored for it.
C34_LastEventPerTriple ==
    [][ /\ \A w \in Writers :
             KvUpdated(w) =>
               LET items == event[w].items
                   t == <<items["endpoint_id"], items["application_name"],
                          items["result_name"]>>
                   remaining == DOMAIN items \ {"endpoint_id", "application_name",
                                                "result_name"}
               IN  /\ KvTriples(kv') = KvTriples(kv) \cup {t}
                   /\ KvValue(kv', t) = json_dumps(Restrict(items, remaining))
                   /\ \A k \in remaining : DumpedField(KvValue(kv', t), k) =
                        IF k = "current_stats" THEN json_dumps_value(items[k]) ELSE items[k]
                   /\ \A u \in KvTriples(kv) \ {t} : KvValue(kv', u) = KvValue(kv, u)
        /\ (\A w \in Writers : ~KvUpdated(w)) => kv' = kv ]_vars

\* The second of two events of one triple has replaced the value of the
\* first.
C34_Witness ==
    \E w \in Writers :
      /\ hist[w].accepted = 2
      /\ Before(log[w], "kv_return", Len(log[w]) + 1)
      /\ event[w].items["result_status"] = detected
      /\ Len(frames_writes) = 2
      /\ frames_writes[1].dfs[1]["endpoint_id"] = Endpoint1
      /\ frames_writes[1].dfs[1]["result_name"] = Name1
      /\ frames_writes[1].dfs[1]["result_status"] = 0
      /\ KvTriples(kv) = {<<Endpoint1, App1, Name1>>}
      /\ DumpedField(KvValue(kv, <<Endpoint1, App1, Name1>>), "result_status") = detected

\* The log entries of a backend that refuses a call.
Refusals == {"ts_reject", "kv_raise", "schema_raise"}

\* C35: with backends that accept every call, the construction of the writer
\* succeeds for every combination of the time-series and metadata store
\* variants, and no well-formed event ends do() with an exception: it goes
\* through the stages to Done.
C35_EveryCombinationCompletes ==
    \A w \in Writers :
      /\ wstate[w] # "init_failed"
      /\ (raw[w] \in WellFormedRaw /\ Range(log[w]) \cap Refusals = {})
           => pc[w] \notin {"Failed", "Rejected"}

\* C36: a store bound to project P returns, modifies and deletes only
\* records of project P: get_model_endpoint returns no record of another
\* project, and update_model_endpoint and delete_model_endpoint leave the
\* records of other projects in the table as they were.
C36_OwnProjectOnly ==
    /\ (outcome.op = "get_model_endpoint" /\ outcome.exc = "")
         => \A r \in sql_rows_of(outcome.before, outcome.endpoint_id) :
              r["project"] = outcome.project
    /\ outcome.op \in {"update_model_endpoint", "delete_model_endpoint"}
         => \A r \in outcome.before.rows :
              r["project"] # outcome.project => r \in sql_table.rows

----------------------------------------------------------------------------
(* write_model_endpoint called by two workers on one database *)

\* engine.has_table(self.table_name)
has_table(table) == table.exists

\* The CREATE TABLE statement metadata.create_all issues for a table its
\* check did not find: the database refuses it when the table exists by then.
create_table(table) ==
    IF table.exists THEN [exc |-> "sqlalchemy.exc.OperationalError", table |-> table]
    ELSE [exc |-> "", table |-> [exists |-> TRUE, rows |-> {}]]

\* endpoint_df.to_sql(self.table_name, con=engine, index=False,
\* if_exists="append") on the existing table: the INSERT of the row, which the
\* primary key refuses for an id the table holds.
to_sql(table, row) ==
    IF row["endpoint_id"] \in sql_ids(table)
    THEN [exc |-> "sqlalchemy.exc.IntegrityError", table |-> table]
    ELSE [exc |-> "", table |-> [table EXCEPT !.rows = @ \cup {row}]]

raceUnchanged ==
    <<mlconf, workers, wstate, attrs, kv_schemas, ip, raw, log, pushes, hist, storeVars,
      checkVars, connVars>>

\* A worker calls write_model_endpoint(endpoint).
WriteBegin(w, endpoint) ==
    /\ pc[w] = "idle"
    /\ pc' = [pc EXCEPT ![w] = "has_table"]
    /\ event' = [event EXCEPT ![w] = endpoint]
    /\ UNCHANGED <<error, sql_table, raceUnchanged>>

\* if not engine.has_table(self.table_name): ...
HasTable(w) ==
    /\ pc[w] = "has_table"
    /\ pc' = [pc EXCEPT ![w] = IF has_table(sql_table) THEN "to_sql" ELSE "create_all"]
    /\ UNCHANGED <<event, error, sql_table, raceUnchanged>>

\* metadata.create_all(engine), first half: its own look for the table
\* (checkfirst), which skips a table that exists.
CreateAllCheck(w) ==
    /\ pc[w] = "create_all"
    /\ pc' = [pc EXCEPT ![w] = IF has_table(sql_table) THEN "to_sql" ELSE "create_table"]
    /\ UNCHANGED <<event, error, sql_table, raceUnchanged>>

\* metadata.create_all(engine), second half: the CREATE TABLE statement.
CreateTable(w) ==
    /\ pc[w] = "create_table"
    /\ LET r == create_table(sql_table)
       IN  /\ sql_table' = r.table
           /\ error' = [error EXCEPT ![w] = r.exc]
           /\ pc' = [pc EXCEPT ![w] = IF r.exc = "" THEN "to_sql" ELSE "Failed"]
    /\ UNCHANGED <<event, raceUnchanged>>

\* endpoint_df.to_sql(...)
ToSql(w) ==
    /\ pc[w] = "to_sql"
    /\ LET r == to_sql(sql_table, get_params(event[w]))
       IN  /\ sql_table' = r.table
           /\ error' = [error EXCEPT ![w] = r.exc]
           /\ pc' = [pc EXCEPT ![w] = IF r.exc = "" THEN "Done" ELSE "Failed"]
    /\ UNCHANGED <<event, raceUnchanged>>

\* Two workers, one call each, on a database without the table.
InitRace ==
    /\ mlconf = [tsdb_store_type |-> TDEngine, store_type |-> SQL]
    /\ workers = Writers
    /\ InitWriters
    /\ InitStores
    /\ InitChecks
    /\ InitConnector

NextRace ==
    \E w \in Writers :
      \/ \E endpoint \in ModelEndpoints : WriteBegin(w, endpoint)
      \/ HasTable(w)
      \/ CreateAllCheck(w)
      \/ CreateTable(w)
      \/ ToSql(w)

SpecRace == InitRace /\ [][NextRace]_vars

\* C37: when two workers have called create for two distinct ids on a
\* database whose table did not exist, both calls have succeeded and both
\* records are stored, whatever the interleaving of their steps.
C37_ConcurrentCreatesSucceed ==
    \A w1 \in Writers : \A w2 \in Writers \ {w1} :
      ( /\ pc[w1] \in {"Done", "Failed"}
        /\ pc[w2] \in {"Done", "Failed"}
        /\ event[w1].uid # event[w2].uid )
      => /\ pc[w1] = "Done"
         /\ pc[w2] = "Done"
         /\ get_params(event[w1]) \in sql_table.rows
         /\ get_params(event[w2]) \in sql_table.rows

\* C38: read_prediction_metric_for_endpoint_if_exists returns the invocations
\* metric if and only if the endpoint has at least one prediction record, and
\* returns nothing when read_predictions has no data.
C38_MetricIffPredictions ==
    (outcome.op = "read_prediction_metric_for_endpoint_if_exists" /\ outcome.reject = ""
        /\ "predictions" \in outcome.super)
      => /\ outcome.exc = ""
         /\ outcome.df # <<>> <=> outcome.value = InvocationsMetric(outcome.project)
         /\ outcome.df = <<>> => outcome.value = PyNone

----------------------------------------------------------------------------
(* delete_tsdb_resources on a database two projects write to *)

\* The events written: results and a metric of two endpoints for the first
\* project, a result for the second.
DropEvents ==
    ConnEvents \cup { <<Project1, <<EndpointDash, AppA, <<"k", "l">>, RESULT>>>>,
                      <<Project1, <<EndpointShort, AppA, Name1, METRIC>>>> }

NextDrop ==
    \/ \E fail_at \in 0..Len(SuperTables_ordered) : CreateTables(fail_at)
    \/ \E e \in DropEvents : ConnWrite(e[1], e[2])
    \/ \E project \in Projects : DeleteTsdbResources(project)

SpecDrop == InitConn /\ [][NextDrop]_vars

\* The subtables of a database that are not tagged with the project, each with
\* its supertable, its tags and its rows.
ForeignPart(db, project) ==
    LET foreign == {n \in DOMAIN db.subtables : db.subtables[n].tags["project"] # project}
    IN  [subtables |-> [n \in foreign |-> db.subtables[n]],
         rows |-> {r \in db.rows : r.subtable \in foreign}]

\* C39: delete_tsdb_resources drops only subtables tagged with the
\* connector's project: the subtables of other projects, with their rows, and
\* the supertables are afterwards as before; and after a run that raised no
\* error no subtable tagged with the project remains.
C39_DropsOnlyOwnProject ==
    outcome.op = "delete_tsdb_resources"
      => /\ ForeignPart(outcome.after, outcome.project)
              = ForeignPart(outcome.before, outcome.project)
         /\ DOMAIN outcome.after.subtables \subseteq DOMAIN outcome.before.subtables
         /\ outcome.after.super = outcome.super
         /\ outcome.exc = ""
              => td_project_subtables(outcome.after.subtables, outcome.project) = {}

\* A successful run on a database that held two subtables of the project and
\* one of another project.
C39_Witness ==
    /\ outcome.op = "delete_tsdb_resources"
    /\ outcome.exc = ""
    /\ outcome.project = Project1
    /\ Cardinality(outcome.targets) = 2
    /\ DOMAIN outcome.after.subtables # {}
    /\ outcome.after.rows # {}

\* C40: write_application_event leaves the caller's event unchanged in both
\* connector variants: from the normalization on, the event of do() is
\* field-for-field the normalized event, with its extra-data field and no
\* added field.
C40_EventUnchangedByTsdbWrite ==
    \A w \in Writers :
      (pc[w] \in {"do", "td_insert", "Done", "Failed"} /\ (ip[w] >= 1 \/ pc[w] = "td_insert"))
        => /\ event[w] = _reconstruct_event(raw[w]).value
           /\ "result_extra_data" \in DOMAIN event[w].items
           /\ DOMAIN event[w].items \subseteq Declared

====
